---- MODULE Spec2Model ----
(***************************************************************************)
(* State-machine model of SpotifyAnalyzer (monthly_analysis.py): the       *)
(* normalizer (collect_records), the duration reference estimator          *)
(* (finalize_durations), the chronological repair and scoring pass         *)
(* (process_data), the era segmenter (_finalize_intelligence) and the      *)
(* report builder (get_report).                                            *)
(*                                                                         *)
(* Conventions.  A Python str is a sequence of one-character strings.  A   *)
(* JSON field value is a record [k, s, n]: k = "null" (None or a missing   *)
(* key), "str" (s is the text) or "num" (n is the number).  A score is an  *)
(* exact rational [n, d] in lowest terms.  A dict or Counter, whose        *)
(* iteration order is its insertion order, is a sequence of entries.       *)
(***************************************************************************)
EXTENDS Integers, Sequences, FiniteSets, TLC

----------------------------------------------------------------------------
(* Bounds of the model *)

\* at most this many raw events are passed to collect_records in a behaviour
MaxEvents == 3

----------------------------------------------------------------------------
(* Generic helpers *)

Min(S) == CHOOSE x \in S : \A y \in S : x <= y

Max(S) == CHOOSE x \in S : \A y \in S : x >= y

RECURSIVE Gcd(_, _)
Gcd(a, b) == IF b = 0 THEN a ELSE Gcd(b, a % b)

\* the rational n/d in lowest terms (d > 0, n >= 0)
Frac(n, d) == LET g == Gcd(n, d) IN [n |-> n \div g, d |-> d \div g]

Zero == [n |-> 0, d |-> 1]

FAdd(a, b) == LET g == Gcd(a.d, b.d)
              IN Frac(a.n * (b.d \div g) + b.n * (a.d \div g), (a.d \div g) * b.d)

FLess(a, b) == a.n * b.d < b.n * a.d

FLeq(a, b) == a.n * b.d <= b.n * a.d

----------------------------------------------------------------------------
(* JSON values and Python truthiness *)

Null == [k |-> "null", s |-> <<>>, n |-> 0]

Str(s) == [k |-> "str", s |-> s, n |-> 0]

Num(n) == [k |-> "num", s |-> <<>>, n |-> n]

\* bool(v): None, "" and 0 are falsy
Truthy(v) == CASE v.k = "null" -> FALSE
               [] v.k = "str" -> v.s # <<>>
               [] OTHER -> v.n # 0

\* Python's "a or b"
PyOr(a, b) == IF Truthy(a) THEN a ELSE b

Digits == {"0", "1", "2", "3", "4", "5", "6", "7", "8", "9"}

DigitChars == <<"0", "1", "2", "3", "4", "5", "6", "7", "8", "9">>

DigitVal(c) == (CHOOSE i \in 1..10 : DigitChars[i] = c) - 1

\* str(n) for a non-negative integer
RECURSIVE Decimal(_)
Decimal(n) == IF n < 10 THEN <<DigitChars[n + 1]>>
              ELSE Decimal(n \div 10) \o <<DigitChars[(n % 10) + 1]>>

\* str(v)
StrOf(v) == CASE v.k = "str" -> v.s
              [] v.k = "num" -> Decimal(v.n)
              [] OTHER -> <<"N", "o", "n", "e">>

UpperChars == <<"A", "B", "C", "D", "E", "F", "G", "H", "I", "J", "K", "L", "M",
                "N", "O", "P", "Q", "R", "S", "T", "U", "V", "W", "X", "Y", "Z">>

LowerChars == <<"a", "b", "c", "d", "e", "f", "g", "h", "i", "j", "k", "l", "m",
                "n", "o", "p", "q", "r", "s", "t", "u", "v", "w", "x", "y", "z">>

LowerChar(c) == IF \E i \in 1..26 : UpperChars[i] = c
                THEN LowerChars[CHOOSE i \in 1..26 : UpperChars[i] = c]
                ELSE c

\* a mutant of Lower: the .lower() call forgotten
LowerForgotten(s) == s

\* str.lower()
Lower(s) == [i \in 1..Len(s) |-> LowerChar(s[i])]

\* str.strip() (the whitespace of the model is the space character)
Strip(s) ==
    LET keep == {i \in 1..Len(s) : s[i] # " "}
    IN IF keep = {} THEN <<>> ELSE SubSeq(s, Min(keep), Max(keep))

\* a mutant of Normalize: str(text).strip() without the "if text" guard
NormalizeUnguarded(text) == Strip(StrOf(text))

\* _normalize
Normalize(text) == IF Truthy(text) THEN Strip(StrOf(text)) ELSE <<>>

----------------------------------------------------------------------------
(* _canonicalize_track: re.split(pattern, name, flags=re.IGNORECASE)[0] is  *)
(* the text before the leftmost match of any alternative of the pattern.   *)
(* A pattern alternative is a sequence of literal characters, "\\d" being  *)
(* the digit class.                                                        *)

DashPatterns ==
    { <<" ", "-", " ", "\\d", "\\d", "\\d", "\\d", " ", "R", "e", "m", "a", "s", "t", "e", "r">>,
      <<" ", "-", " ", "R", "e", "m", "a", "s", "t", "e", "r">>,
      <<" ", "-", " ", "L", "i", "v", "e">>,
      <<" ", "-", " ", "M", "o", "n", "o">>,
      <<" ", "-", " ", "D", "e", "l", "u", "x", "e">> }

ParenPatterns ==
    { <<" ", "(", "R", "e", "m", "a", "s", "t", "e", "r", "e", "d", ")">>,
      <<" ", "(", "L", "i", "v", "e", ")">>,
      <<" ", "(", "M", "o", "n", "o", ")">>,
      <<" ", "(", "D", "e", "l", "u", "x", "e", ")">>,
      <<" ", "(", "R", "a", "d", "i", "o", " ", "E", "d", "i", "t", ")">>,
      <<" ", "(", "B", "o", "n", "u", "s", " ", "T", "r", "a", "c", "k", ")">> }

MatchAt(pat, s, i) ==
    /\ i + Len(pat) - 1 <= Len(s)
    /\ \A j \in 1..Len(pat) :
          IF pat[j] = "\\d" THEN s[i + j - 1] \in Digits
          ELSE LowerChar(s[i + j - 1]) = LowerChar(pat[j])

SplitFirst(pats, s) ==
    LET hits == {i \in 1..Len(s) : \E p \in pats : MatchAt(p, s, i)}
    IN IF hits = {} THEN s ELSE SubSeq(s, 1, Min(hits) - 1)

\* a mutant of CanonicalizeTrack: the parenthetical versions are not removed
CanonicalizeDashOnly(track_name) ==
    IF track_name = <<>> THEN <<>> ELSE Strip(SplitFirst(DashPatterns, track_name))

CanonicalizeTrack(track_name) ==
    IF track_name = <<>> THEN <<>>
    ELSE Strip(SplitFirst(ParenPatterns, SplitFirst(DashPatterns, track_name)))

----------------------------------------------------------------------------
(* datetime.strptime(ts_str, "%Y-%m-%dT%H:%M:%SZ"): the format's regular   *)
(* expression is matched case-insensitively against the whole string; the  *)
(* year takes four digits, every other field one or two.                   *)

RECURSIVE DigitRun(_, _)
DigitRun(s, i) == IF i <= Len(s) /\ s[i] \in Digits THEN 1 + DigitRun(s, i + 1) ELSE 0

RECURSIVE ToInt(_)
ToInt(ds) == IF ds = <<>> THEN 0
             ELSE 10 * ToInt(SubSeq(ds, 1, Len(ds) - 1)) + DigitVal(ds[Len(ds)])

IsLeap(y) == (y % 4 = 0 /\ y % 100 # 0) \/ y % 400 = 0

DaysBeforeMonth == <<0, 31, 59, 90, 120, 151, 181, 212, 243, 273, 304, 334>>

DaysInMonth(y, m) == IF m = 2 THEN (IF IsLeap(y) THEN 29 ELSE 28)
                     ELSE IF m \in {4, 6, 9, 11} THEN 30 ELSE 31

\* date.toordinal()
Ordinal(y, m, d) ==
    365 * (y - 1) + ((y - 1) \div 4) - ((y - 1) \div 100) + ((y - 1) \div 400)
    + DaysBeforeMonth[m] + (IF m > 2 /\ IsLeap(y) THEN 1 ELSE 0) + d

\* seconds from 2000-01-01T00:00:00 to the datetime: the model's datetime value
EpochSeconds(y, m, d, h, mi, sec) ==
    (Ordinal(y, m, d) - Ordinal(2000, 1, 1)) * 86400 + h * 3600 + mi * 60 + sec

BadTs == [ok |-> FALSE, sec |-> 0, hour |-> 0]

\* fields of the format after the year: the literal before each, and its range
TsFields == << <<"-", 1, 12>>, <<"-", 1, 31>>, <<"t", 0, 23>>, <<":", 0, 59>>, <<":", 0, 59>> >>

\* the position after field f starting at i (0: no match), and its value
\* (the seconds pattern also matches 60 and 61, which datetime then refuses;
\* the day pattern also matches a space followed by one digit 1-9)
TsField(s, i, f) ==
    LET pad == IF f = 2 /\ i + 1 <= Len(s) /\ s[i + 1] = " " THEN 1 ELSE 0
        run == DigitRun(s, i + 1 + pad)
        val == ToInt(SubSeq(s, i + 1 + pad, i + pad + run))
    IN IF /\ i <= Len(s)
          /\ LowerChar(s[i]) = TsFields[f][1]
          /\ run \in (IF pad = 1 THEN {1} ELSE {1, 2})
          /\ val >= TsFields[f][2]
          /\ val <= TsFields[f][3]
       THEN [next |-> i + 1 + pad + run, val |-> val]
       ELSE [next |-> 0, val |-> 0]

\* the fields from f on, starting at i: the position after the last one
\* (0: no match) and the values, vals being those of the fields before f
RECURSIVE TsMatch(_, _, _, _)
TsMatch(s, i, f, vals) ==
    IF f > Len(TsFields) THEN [next |-> i, vals |-> vals]
    ELSE LET r == TsField(s, i, f)
         IN IF r.next = 0 THEN [next |-> 0, vals |-> vals]
            ELSE TsMatch(s, r.next, f + 1, Append(vals, r.val))

\* the datetime of a match: year y, the other fields in m.vals
TsValue(s, y, m) ==
    IF /\ m.next # 0
       /\ m.next = Len(s)
       /\ LowerChar(s[m.next]) = "z"
       /\ y >= 1
       /\ m.vals[2] <= DaysInMonth(y, m.vals[1])
    THEN [ok |-> TRUE,
          sec |-> EpochSeconds(y, m.vals[1], m.vals[2], m.vals[3], m.vals[4], m.vals[5]),
          hour |-> m.vals[3]]
    ELSE BadTs

\* strptime on a str; ok = FALSE is ValueError
Strptime(s) ==
    IF DigitRun(s, 1) # 4 THEN BadTs
    ELSE TsValue(s, ToInt(SubSeq(s, 1, 4)), TsMatch(s, 5, 1, <<>>))

\* strptime on the value of the "ts" key: a non-str argument is a TypeError,
\* which collect_records catches like ValueError
ParseTs(v) == IF v.k = "str" THEN Strptime(v.s) ELSE BadTs

\* (b - a).total_seconds() * 1000 for two datetime values; the product is
\* held at MaxGapMs, above 1.2 times every reference duration of the model,
\* so that it stays a machine integer
MaxGapMs == 400000000

GapMs(a, b) == IF b - a >= MaxGapMs \div 1000 THEN MaxGapMs ELSE (b - a) * 1000

----------------------------------------------------------------------------
(* dict, defaultdict and Counter: sequences of entries in insertion order, *)
(* each entry a record with its key in field k                             *)

HasKey(d, key) == \E j \in 1..Len(d) : d[j].k = key

IndexOf(d, key) == CHOOSE j \in 1..Len(d) : d[j].k = key

\* defaultdict.__getitem__: a missing key is inserted with the default
Touch(d, key, default) == IF HasKey(d, key) THEN d ELSE Append(d, default)

\* Counter.get(key, 0) on a Counter of scores
ScoreOf(c, key) == IF HasKey(c, key) THEN c[IndexOf(c, key)].v ELSE Zero

\* a mutant of ScoreAdd: the score is stored next to the old one, not added
ScoreAddAppend(c, key, x) == Append(c, [k |-> key, v |-> x])

\* c[key] += x on a Counter of scores
ScoreAdd(c, key, x) ==
    IF HasKey(c, key) THEN [c EXCEPT ![IndexOf(c, key)].v = FAdd(@, x)]
    ELSE Append(c, [k |-> key, v |-> x])

\* c[key] += 1 on a Counter of occurrences
CountInc(c, key) ==
    IF HasKey(c, key) THEN [c EXCEPT ![IndexOf(c, key)].v = @ + 1]
    ELSE Append(c, [k |-> key, v |-> 1])

\* sum(c.values()) of a Counter of scores
RECURSIVE ScoreSum(_)
ScoreSum(c) == IF c = <<>> THEN Zero ELSE FAdd(c[1].v, ScoreSum(Tail(c)))

\* sum(c.values()) of a Counter of occurrences
RECURSIVE CountSum(_)
CountSum(c) == IF c = <<>> THEN 0 ELSE c[1].v + CountSum(Tail(c))

----------------------------------------------------------------------------
(* The analyzer object: SpotifyAnalyzer.__init__ *)

\* the default of global_track_stats
DefaultTrackStats(track_id) ==
    [k |-> track_id, ref_ms |-> 1, trust |-> Zero, track_name |-> <<>>, artist_name |-> <<>>]

\* the default of monthly_data and yearly_data
DefaultBucket(key) == [k |-> key, songs |-> <<>>, artists |-> <<>>]

NewStats == [processed |-> 0, skipped |-> 0, duplicates |-> 0,
             repaired |-> 0, fused |-> 0, canonized |-> 0]

\* self.eras is not an attribute until _finalize_intelligence assigns it
NoEras == [defined |-> FALSE, list |-> <<>>]

NewAnalyzer ==
    [ monthly_data |-> <<>>,
      yearly_data |-> <<>>,
      alltime_data |-> [songs |-> <<>>, artists |-> <<>>],
      duration_index |-> <<>>,
      global_track_stats |-> <<>>,
      canon_track_map |-> <<>>,
      monthly_entropy |-> <<>>,
      circadian_stats |-> <<>>,
      artist_monthly_presence |-> <<>>,
      all_records |-> <<>>,
      processed_ids |-> {},
      stats |-> NewStats,
      eras |-> NoEras ]

----------------------------------------------------------------------------
(* collect_records: the body of "for record in records" for one record     *)

\* a raw event: a JSON object with these keys (Null: the key is missing or
\* null), or a value that is not an object
RawEvent(ts, track, artist, ms) ==
    [ kind |-> "dict", ts |-> ts,
      master_metadata_track_name |-> track, episode_name |-> Null,
      master_metadata_album_artist_name |-> artist, episode_show_name |-> Null,
      ms_played |-> ms ]

Episode(ts, name, show, ms) ==
    [ kind |-> "dict", ts |-> ts,
      master_metadata_track_name |-> Null, episode_name |-> name,
      master_metadata_album_artist_name |-> Null, episode_show_name |-> show,
      ms_played |-> ms ]

NotAMapping == [RawEvent(Null, Null, Null, Null) EXCEPT !.kind = "other"]

\* self.canon_track_map[raw] = canon
MapPut(d, key, val) ==
    IF HasKey(d, key) THEN [d EXCEPT ![IndexOf(d, key)].v = val]
    ELSE Append(d, [k |-> key, v |-> val])

\* lines 60-61: the track and the artist of a record, with the podcast fallback
TrackOf(record) ==
    Normalize(PyOr(record.master_metadata_track_name, record.episode_name))

ArtistOf(record) ==
    Normalize(PyOr(record.master_metadata_album_artist_name, record.episode_show_name))

\* line 62: record.get("ms_played", 0) or 0
MsPlayedOf(record) == PyOr(record.ms_played, Num(0))

\* a mutant of RawTrackId: the raw identity taken after canonicalization
RawTrackIdCanonical(track, artist) == <<Lower(CanonicalizeTrack(track)), Lower(artist)>>

\* line 66
RawTrackId(track, artist) == <<Lower(track), Lower(artist)>>

\* lines 69-70
CanonTrackId(track, artist) == <<Lower(CanonicalizeTrack(track)), Lower(artist)>>

\* line 78
RecordId(ts_str, ms_played, raw_track_id) == <<ts_str, ms_played, raw_track_id>>

\* a mutant of Seen: the membership test of line 79 forgotten
SeenNever(processed_ids, record_id) == FALSE

\* line 79: record_id in self.processed_ids
Seen(processed_ids, record_id) == record_id \in processed_ids

\* a mutant of InHistogram: every duration enters the histogram
InHistogramAny(ms) == TRUE

\* line 99
InHistogram(ms) == ms > 5000

\* a mutant of StoreDisplayName: the names of the latest record are stored
StoreDisplayNameLatest(gts, track_id, canon_track, artist) ==
    LET g == Touch(gts, track_id, DefaultTrackStats(track_id))
        j == IndexOf(g, track_id)
    IN [g EXCEPT ![j].track_name = canon_track, ![j].artist_name = artist]

\* lines 85-87: the display names are stored on the first encounter
StoreDisplayName(gts, track_id, canon_track, artist) ==
    LET g == Touch(gts, track_id, DefaultTrackStats(track_id))
        j == IndexOf(g, track_id)
    IN IF g[j].track_name = <<>>
       THEN [g EXCEPT ![j].track_name = canon_track, ![j].artist_name = artist]
       ELSE g

\* line 100: self.duration_index[canon_track_id][ms_played] += 1
HistogramAdd(di, track_id, ms) ==
    LET d == Touch(di, track_id, [k |-> track_id, v |-> <<>>])
        j == IndexOf(d, track_id)
    IN [d EXCEPT ![j].v = CountInc(@, ms)]

\* what one iteration of the loop does to the analyzer
CollectRecord(self, record) ==
    IF record.kind # "dict" THEN self
    ELSE IF ~Truthy(record.ts) THEN self
    ELSE IF ~ParseTs(record.ts).ok THEN self
    ELSE
      LET ts        == ParseTs(record.ts)
          ts_str    == record.ts.s
          track     == TrackOf(record)
          artist    == ArtistOf(record)
          ms_played == MsPlayedOf(record)
      IN IF track = <<>> \/ artist = <<>> THEN self
         ELSE
           LET raw_track_id   == RawTrackId(track, artist)
               canon_track    == CanonicalizeTrack(track)
               canon_track_id == CanonTrackId(track, artist)
               record_id      == RecordId(ts_str, ms_played, raw_track_id)
               mapped ==
                 [self EXCEPT
                    !.stats.canonized = IF canon_track_id # raw_track_id THEN @ + 1 ELSE @,
                    !.canon_track_map = MapPut(@, raw_track_id, canon_track_id)]
           IN IF Seen(self.processed_ids, record_id)
              THEN [mapped EXCEPT !.stats.duplicates = @ + 1]
              ELSE
                LET stored ==
                      [mapped EXCEPT
                         !.processed_ids = @ \cup {record_id},
                         !.global_track_stats =
                            StoreDisplayName(@, canon_track_id, canon_track, artist),
                         !.all_records =
                            Append(@, [ ts |-> ts.sec, ts_str |-> ts_str,
                                        ms_played |-> ms_played,
                                        raw_track_id |-> raw_track_id,
                                        track_id |-> canon_track_id,
                                        hour |-> ts.hour ])]
                IN \* "ms_played > 5000" is a TypeError for a str, caught at line 101
                   IF ms_played.k = "num" /\ InHistogram(ms_played.n)
                   THEN [stored EXCEPT
                           !.duration_index = HistogramAdd(@, canon_track_id, ms_played.n)]
                   ELSE stored

\* what the loop made of the record, for the history variable log
Verdict(self, record) ==
    IF \/ record.kind # "dict"
       \/ ~Truthy(record.ts)
       \/ ~ParseTs(record.ts).ok
       \/ TrackOf(record) = <<>>
       \/ ArtistOf(record) = <<>>
    THEN "rejected"
    ELSE IF Seen(self.processed_ids,
                 RecordId(record.ts.s, MsPlayedOf(record),
                          RawTrackId(TrackOf(record), ArtistOf(record))))
    THEN "duplicate"
    ELSE "accepted"

----------------------------------------------------------------------------
(* finalize_durations *)

\* a mutant of RefMs: the smallest of the most frequent durations
RefMsSmallest(counts) ==
    LET max_freq == Max({counts[j].v : j \in 1..Len(counts)})
        modes    == {counts[j].k : j \in {i \in 1..Len(counts) : counts[i].v = max_freq}}
    IN Min(modes)

\* lines 114-117: the largest of the most frequent durations
RefMs(counts) ==
    LET max_freq == Max({counts[j].v : j \in 1..Len(counts)})
        modes    == {counts[j].k : j \in {i \in 1..Len(counts) : counts[i].v = max_freq}}
    IN Max(modes)

\* line 120: the observations of at least 80% of the reference
RECURSIVE FullListens(_, _)
FullListens(counts, ref_ms) ==
    IF counts = <<>> THEN 0
    ELSE (IF 10 * counts[1].k >= 8 * ref_ms THEN counts[1].v ELSE 0)
         + FullListens(Tail(counts), ref_ms)

\* a mutant of Trust: every observation counts as a full listen
TrustInAll(counts, ref_ms) ==
    IF CountSum(counts) > 0 THEN Frac(CountSum(counts), CountSum(counts))
    ELSE Zero

\* lines 119-121
Trust(counts, ref_ms) ==
    IF CountSum(counts) > 0 THEN Frac(FullListens(counts, ref_ms), CountSum(counts))
    ELSE Zero

\* lines 108-126: the loop over the items of duration_index, from item j
RECURSIVE FinalizeLoop(_, _, _)
FinalizeLoop(gts, items, j) ==
    IF j > Len(items) THEN gts
    ELSE IF items[j].v = <<>> THEN FinalizeLoop(gts, items, j + 1)
    ELSE
      LET track_id == items[j].k
          ref_ms   == RefMs(items[j].v)
          g        == Touch(gts, track_id, DefaultTrackStats(track_id))
          idx      == IndexOf(g, track_id)
      IN FinalizeLoop([g EXCEPT ![idx].ref_ms = ref_ms,
                                ![idx].trust = Trust(items[j].v, ref_ms)],
                      items, j + 1)

\* _print_progress(total, total) at line 127 divides by total
FinalizeRaises(self) == Len(self.duration_index) = 0

FinalizeDurations(self) ==
    [self EXCEPT !.global_track_stats = FinalizeLoop(@, self.duration_index, 1)]

----------------------------------------------------------------------------
(* process_data: the chronological pass *)

\* list.sort(key=ts) is stable: r goes behind the records that are not later
RECURSIVE InsertByTs(_, _)
InsertByTs(sorted, r) ==
    IF sorted = <<>> THEN <<r>>
    ELSE IF sorted[Len(sorted)].ts <= r.ts THEN Append(sorted, r)
    ELSE Append(InsertByTs(SubSeq(sorted, 1, Len(sorted) - 1), r), sorted[Len(sorted)])

\* the records lo..hi inserted one after the other, by halves; InsertRest
\* looks at the first half before it goes into the second, which keeps the
\* evaluation from nesting once per record
RECURSIVE InsertRangeByTs(_, _, _, _)
RECURSIVE InsertRest(_, _, _, _)
InsertRangeByTs(sorted, records, lo, hi) ==
    IF lo > hi THEN sorted
    ELSE IF lo = hi THEN InsertByTs(sorted, records[lo])
    ELSE InsertRest(InsertRangeByTs(sorted, records, lo, (lo + hi) \div 2),
                    records, ((lo + hi) \div 2) + 1, hi)

InsertRest(done, records, lo, hi) ==
    IF done = <<>> THEN InsertRangeByTs(<<>>, records, lo, hi)
    ELSE InsertRangeByTs(done, records, lo, hi)

\* a mutant of SortByTs: the corpus is left in the order of its collection
SortByTsSkipped(records) == records

\* line 145: self.all_records.sort(key=lambda x: x["ts"])
SortByTs(records) == InsertRangeByTs(<<>>, records, 1, Len(records))

\* self.global_track_stats[track_id]
StatsOf(gts, track_id) ==
    IF HasKey(gts, track_id) THEN gts[IndexOf(gts, track_id)] ELSE DefaultTrackStats(track_id)

\* a mutant of Fused: the track of the previous record is not looked at
FusedAnyTrack(all, prev, i) ==
    /\ prev # 0
    /\ GapMs(all[prev].ts, all[i].ts) < 1000

\* lines 160-164, phase A; prev is the index of prev_record, 0 for None
Fused(all, prev, i) ==
    /\ prev # 0
    /\ all[prev].track_id = all[i].track_id
    /\ GapMs(all[prev].ts, all[i].ts) < 1000

\* a mutant of Repaired: the trust of the track is not asked for
RepairedUntrusted(all, stats, i) ==
    /\ i + 1 <= Len(all)
    /\ 100 * all[i].ms_played.n < 15 * stats.ref_ms
    /\ 5 * GapMs(all[i].ts, all[i + 1].ts) > 4 * stats.ref_ms
    /\ 5 * GapMs(all[i].ts, all[i + 1].ts) < 6 * stats.ref_ms

\* lines 168-172, phase B: reported < 0.15 ref, 0.8 ref < gap < 1.2 ref, trust > 0.5
Repaired(all, stats, i) ==
    /\ i + 1 <= Len(all)
    /\ 100 * all[i].ms_played.n < 15 * stats.ref_ms
    /\ 5 * GapMs(all[i].ts, all[i + 1].ts) > 4 * stats.ref_ms
    /\ 5 * GapMs(all[i].ts, all[i + 1].ts) < 6 * stats.ref_ms
    /\ 2 * stats.trust.n > stats.trust.d

\* a mutant of RecordFle: the cap of 2.0 left out
RecordFleUncapped(effective_ms, ref_ms) ==
    IF ref_ms > 0 THEN Frac(effective_ms, ref_ms) ELSE Zero

\* line 179: min(effective_ms / ref_ms, 2.0) if ref_ms > 0 else 0
RecordFle(effective_ms, ref_ms) ==
    IF ref_ms > 0
    THEN (IF effective_ms >= 2 * ref_ms THEN Frac(2, 1) ELSE Frac(effective_ms, ref_ms))
    ELSE Zero

\* line 182: ts_str[:7] and ts_str[:4]
Prefix(s, n) == SubSeq(s, 1, IF Len(s) < n THEN Len(s) ELSE n)

\* a mutant of BucketAdd: the score of the artist is not added
BucketAddSongOnly(data, key, track_id, artist_low, fle) ==
    LET d == Touch(data, key, DefaultBucket(key))
        j == IndexOf(d, key)
    IN [d EXCEPT ![j].songs = ScoreAdd(@, track_id, fle),
                 ![j].artists = Touch(@, artist_low, [k |-> artist_low, v |-> Zero])]

\* lines 185-188: data[key]["songs"][track_id] += fle, data[key]["artists"][artist] += fle
BucketAdd(data, key, track_id, artist_low, fle) ==
    LET d == Touch(data, key, DefaultBucket(key))
        j == IndexOf(d, key)
    IN [d EXCEPT ![j].songs = ScoreAdd(@, track_id, fle),
                 ![j].artists = ScoreAdd(@, artist_low, fle)]

\* line 193: self.circadian_stats[artist_low][hour] += fle
CircadianAdd(cs, artist_low, hour, fle) ==
    LET d == Touch(cs, artist_low, [k |-> artist_low, v |-> <<>>])
    IN [d EXCEPT ![IndexOf(d, artist_low)].v = ScoreAdd(@, hour, fle)]

\* line 194: self.artist_monthly_presence[artist_low].add(month_key)
PresenceAdd(ps, artist_low, month_key) ==
    LET d == Touch(ps, artist_low, [k |-> artist_low, v |-> {}])
    IN [d EXCEPT ![IndexOf(d, artist_low)].v = @ \cup {month_key}]

\* a mutant of Accumulate: the listen is not counted as processed
AccumulateUncounted(self, curr, fle) ==
    LET track_id   == curr.track_id
        artist_low == track_id[2]
        month_key  == Prefix(curr.ts_str, 7)
        year_key   == Prefix(curr.ts_str, 4)
    IN [self EXCEPT
          !.monthly_data = BucketAdd(@, month_key, track_id, artist_low, fle),
          !.yearly_data = BucketAdd(@, year_key, track_id, artist_low, fle),
          !.alltime_data.songs = ScoreAdd(@, track_id, fle),
          !.alltime_data.artists = ScoreAdd(@, artist_low, fle),
          !.circadian_stats = CircadianAdd(@, artist_low, curr.hour, fle),
          !.artist_monthly_presence = PresenceAdd(@, artist_low, month_key)]

\* lines 181-196
Accumulate(self, curr, fle) ==
    LET track_id   == curr.track_id
        artist_low == track_id[2]
        month_key  == Prefix(curr.ts_str, 7)
        year_key   == Prefix(curr.ts_str, 4)
    IN [self EXCEPT
          !.monthly_data = BucketAdd(@, month_key, track_id, artist_low, fle),
          !.yearly_data = BucketAdd(@, year_key, track_id, artist_low, fle),
          !.alltime_data.songs = ScoreAdd(@, track_id, fle),
          !.alltime_data.artists = ScoreAdd(@, artist_low, fle),
          !.circadian_stats = CircadianAdd(@, artist_low, curr.hour, fle),
          !.artist_monthly_presence = PresenceAdd(@, artist_low, month_key),
          !.stats.processed = @ + 1]

\* line 177
Dropped(effective_ms) == effective_ms < 5000

\* One iteration of the loop of lines 150-197 on record i of the sorted corpus.
\* The result: the analyzer, the index of prev_record, what became of the record
\* (outcome "fused", "dropped", "scored", or "TypeError" when a comparison of a
\* str duration with a number raises), its effective duration and its score.
ScoreRecord(self, prev, i) ==
    LET all   == self.all_records
        curr  == all[i]
        stats == StatsOf(self.global_track_stats, curr.track_id)
        touched == [self EXCEPT !.global_track_stats =
                       Touch(@, curr.track_id, DefaultTrackStats(curr.track_id))]
        none  == [self |-> touched, prev |-> prev, outcome |-> "none", repaired |-> FALSE,
                  effective_ms |-> 0, ref_ms |-> stats.ref_ms, fle |-> Zero]
    IN IF Fused(all, prev, i)
       THEN [none EXCEPT !.outcome = "fused", !.self.stats.fused = @ + 1]
       ELSE IF curr.ms_played.k # "num"
       THEN [none EXCEPT !.outcome = "TypeError"]
       ELSE
         LET repaired     == Repaired(all, stats, i)
             effective_ms == IF repaired THEN stats.ref_ms ELSE curr.ms_played.n
             counted      == [touched EXCEPT !.stats.repaired = IF repaired THEN @ + 1 ELSE @]
             fle          == RecordFle(effective_ms, stats.ref_ms)
         IN IF Dropped(effective_ms)
            THEN [none EXCEPT !.self = counted, !.outcome = "dropped",
                              !.repaired = repaired, !.effective_ms = effective_ms]
            ELSE [none EXCEPT !.self = Accumulate(counted, curr, fle), !.prev = i,
                              !.outcome = "scored", !.repaired = repaired,
                              !.effective_ms = effective_ms, !.fle = fle]

\* the loop of lines 150-197 from record i on; a TypeError ends it
RECURSIVE ScoreLoop(_, _, _)
ScoreLoop(self, prev, i) ==
    IF i > Len(self.all_records) THEN [self |-> self, error |-> ""]
    ELSE LET r == ScoreRecord(self, prev, i)
         IN IF r.outcome = "TypeError" THEN [self |-> r.self, error |-> "TypeError"]
            ELSE ScoreLoop(r.self, r.prev, i + 1)

----------------------------------------------------------------------------
(* math.log2, in fixed point: Log2Ratio(a, b) is log2(a / b) in units of   *)
(* 1/1024 bit for integers a >= b > 0, computed from 15-bit mantissas by    *)
(* repeated squaring (exact for a = b; elsewhere within a few units).      *)

RECURSIVE Mantissa(_, _)
Mantissa(x, e) == IF x < 16384 THEN Mantissa(2 * x, e - 1)
                  ELSE IF x >= 32768 THEN Mantissa(x \div 2, e + 1)
                  ELSE [m |-> x, e |-> e]

RECURSIVE FractionBits(_, _)
FractionBits(m, bit) ==
    IF bit = 0 THEN 0
    ELSE LET sq == (m * m) \div 16384
         IN IF sq >= 32768 THEN bit + FractionBits(sq \div 2, bit \div 2)
            ELSE FractionBits(sq, bit \div 2)

Log2Ratio(a, b) ==
    LET ma == Mantissa(a, 0)
        mb == Mantissa(b, 0)
        q  == (ma.m * 16384) \div mb.m
        m  == IF q < 16384 THEN 2 * q ELSE q
        e  == IF q < 16384 THEN ma.e - mb.e - 1 ELSE ma.e - mb.e
    IN IF a = b THEN 0 ELSE e * 1024 + FractionBits(m, 512)

\* the rational (a.n / a.d) / (b.n / b.d), b > 0
FDiv(a, b) == Frac(a.n * b.d, a.d * b.n)

\* x * log2(r) for rationals x >= 0 and r >= 1, in units of 1/1024 bit
TimesLog2(x, r) == (x.n * Log2Ratio(r.n, r.d)) \div x.d

\* _calculate_entropy: -sum(p * log2(p)) over the values of a Counter of
\* scores, in units of 1/1024 bit
RECURSIVE EntropyFrom(_, _, _)
EntropyFrom(c, total, j) ==
    IF j > Len(c) THEN 0
    ELSE LET p == FDiv(c[j].v, total)
         IN IF p.n > 0
            THEN TimesLog2(p, [n |-> p.d, d |-> p.n]) + EntropyFrom(c, total, j + 1)
            ELSE EntropyFrom(c, total, j + 1)

CalculateEntropy(data_counter) ==
    IF ScoreSum(data_counter).n = 0 THEN 0
    ELSE EntropyFrom(data_counter, ScoreSum(data_counter), 1)

\* line 222: the Counter whose entropy is stored for a month
EntropySource(data) == data.songs

\* lines 221-222
RECURSIVE MonthlyEntropy(_, _)
MonthlyEntropy(monthly_data, j) ==
    IF j > Len(monthly_data) THEN <<>>
    ELSE <<[k |-> monthly_data[j].k, v |-> CalculateEntropy(EntropySource(monthly_data[j]))]>>
         \o MonthlyEntropy(monthly_data, j + 1)

\* lines 213-214: (counts.get(k, 0) + 0.01) / total
Smoothed(counts, key, total) == FDiv(FAdd(ScoreOf(counts, key), Frac(1, 100)), total)

KeysOf(c) == {c[j].k : j \in 1..Len(c)}

\* lines 211-215: the sum of p * log2(p / q) over the keys, in units of 1/1024 bit
RECURSIVE KlSum(_, _, _, _, _)
KlSum(keys, p_counts, q_counts, p_total, q_total) ==
    IF keys = {} THEN 0
    ELSE LET key == CHOOSE x \in keys : TRUE
             p == Smoothed(p_counts, key, p_total)
             q == Smoothed(q_counts, key, q_total)
             term == IF FLeq(q, p) THEN TimesLog2(p, FDiv(p, q))
                     ELSE 0 - TimesLog2(p, FDiv(q, p))
         IN term + KlSum(keys \ {key}, p_counts, q_counts, p_total, q_total)

\* _calculate_kl_divergence, in units of 1/1024 bit
KlDivergence(p_counts, q_counts) ==
    LET p_total == ScoreSum(p_counts)
        q_total == ScoreSum(q_counts)
    IN IF p_total.n = 0 \/ q_total.n = 0 THEN 0
       ELSE KlSum(KeysOf(p_counts) \cup KeysOf(q_counts), p_counts, q_counts, p_total, q_total)

\* a mutant of Exceeds: no shift closes an era
ExceedsNever(shift, th) == FALSE

\* line 248: shift > THRESHOLD, the threshold a rational number of bits
Exceeds(shift, th) == shift * th.d > th.n * 1024

\* line 234
Threshold == Frac(13, 10)

----------------------------------------------------------------------------
(* Order of str values: code points *)

EmDash == "U+2014"

CodePointOrder ==
    <<" ", "(", ")", "-">> \o DigitChars \o <<":">> \o UpperChars \o LowerChars \o <<EmDash>>

CodePoint(c) == CHOOSE j \in 1..Len(CodePointOrder) : CodePointOrder[j] = c

RECURSIVE StrLess(_, _)
StrLess(a, b) ==
    IF b = <<>> THEN FALSE
    ELSE IF a = <<>> THEN TRUE
    ELSE IF a[1] = b[1] THEN StrLess(Tail(a), Tail(b))
    ELSE CodePoint(a[1]) < CodePoint(b[1])

\* sorted(keys)
RECURSIVE SortedKeys(_)
SortedKeys(keys) ==
    IF keys = {} THEN <<>>
    ELSE LET first == CHOOSE x \in keys : \A y \in keys \ {x} : StrLess(x, y)
         IN <<first>> \o SortedKeys(keys \ {first})

----------------------------------------------------------------------------
(* _finalize_intelligence *)

\* a mutant of CounterUpdate: the counts of other replace the aggregate
CounterReplace(c, other) == other

\* Counter.update(other): the counts of other are added
RECURSIVE CounterUpdate(_, _)
CounterUpdate(c, other) ==
    IF other = <<>> THEN c
    ELSE CounterUpdate(ScoreAdd(c, other[1].k, other[1].v), Tail(other))

\* Counter.most_common(1)[0][0]: the first key of the largest count
TopKey(c) ==
    c[Min({j \in 1..Len(c) : \A i \in 1..Len(c) : FLeq(c[i].v, c[j].v)})].k

Unknown == <<"U", "n", "k", "n", "o", "w", "n">>

\* a mutant of Era: the era is recorded with the month it started in as its end
EraOfOneMonth(start, end, dist) ==
    [start |-> start, end |-> start, top_artist |-> IF dist # <<>> THEN TopKey(dist) ELSE Unknown]

\* lines 250-254 and 262-266
Era(start, end, dist) ==
    [start |-> start, end |-> end, top_artist |-> IF dist # <<>> THEN TopKey(dist) ELSE Unknown]

\* lines 236-266: the loop from month i on (i counted from 1), then the last era
RECURSIVE EraLoop(_, _, _, _, _, _)
EraLoop(monthly_data, sorted_months, i, eras, current_era_start, current_era_distribution) ==
    IF i > Len(sorted_months)
    THEN Append(eras, Era(current_era_start, sorted_months[Len(sorted_months)],
                          current_era_distribution))
    ELSE
      LET m      == sorted_months[i]
          m_dist == monthly_data[IndexOf(monthly_data, m)].artists
      IN IF i = 1
         THEN EraLoop(monthly_data, sorted_months, i + 1, eras, current_era_start,
                      CounterUpdate(current_era_distribution, m_dist))
         ELSE IF Exceeds(KlDivergence(m_dist, current_era_distribution), Threshold)
         THEN EraLoop(monthly_data, sorted_months, i + 1,
                      Append(eras, Era(current_era_start, sorted_months[i - 1],
                                       current_era_distribution)),
                      m, m_dist)
         ELSE EraLoop(monthly_data, sorted_months, i + 1, eras, current_era_start,
                      CounterUpdate(current_era_distribution, m_dist))

FinalizeIntelligence(self) ==
    LET entropy       == MonthlyEntropy(self.monthly_data, 1)
        sorted_months == SortedKeys(KeysOf(self.monthly_data))
    IN IF sorted_months = <<>> THEN [self EXCEPT !.monthly_entropy = entropy]
       ELSE [self EXCEPT
               !.monthly_entropy = entropy,
               !.eras = [defined |-> TRUE,
                         list |-> EraLoop(self.monthly_data, sorted_months, 1, <<>>,
                                          sorted_months[1], <<>>)]]

\* process_data as a whole: the analyzer it leaves, and the exception it raised
ProcessData(self) ==
    IF self.all_records = <<>> THEN [self |-> self, error |-> ""]
    ELSE LET r == ScoreLoop([self EXCEPT !.all_records = SortByTs(@)], 0, 1)
         IN IF r.error # "" THEN r
            ELSE [self |-> FinalizeIntelligence(r.self), error |-> ""]

----------------------------------------------------------------------------
(* get_report and _calculate_fle_rankings *)

\* round(x, 2) of a rational x >= 0, in hundredths (ties to even, as for a
\* float that holds x exactly)
Round2(x) ==
    LET q == (100 * x.n) \div x.d
        r == (100 * x.n) % x.d
    IN IF 2 * r > x.d \/ (2 * r = x.d /\ q % 2 = 1) THEN q + 1 ELSE q

\* _find_artist_display
FindArtistDisplay(gts, lower_artist) ==
    LET hits == {j \in 1..Len(gts) : gts[j].k[2] = lower_artist}
    IN IF hits = {} THEN lower_artist ELSE gts[Min(hits)].artist_name

\* a mutant of InsertByScore: an entry goes before the entries of its score
RECURSIVE InsertByScoreBefore(_, _)
InsertByScoreBefore(sorted, x) ==
    IF sorted = <<>> THEN <<x>>
    ELSE IF sorted[Len(sorted)].score > x.score THEN Append(sorted, x)
    ELSE Append(InsertByScoreBefore(SubSeq(sorted, 1, Len(sorted) - 1), x), sorted[Len(sorted)])

\* sorted(entries, key=score, reverse=True): stable, so an entry goes behind
\* the entries whose score is not smaller
RECURSIVE InsertByScore(_, _)
InsertByScore(sorted, x) ==
    IF sorted = <<>> THEN <<x>>
    ELSE IF sorted[Len(sorted)].score >= x.score THEN Append(sorted, x)
    ELSE Append(InsertByScore(SubSeq(sorted, 1, Len(sorted) - 1), x), sorted[Len(sorted)])

RECURSIVE SortByScore(_)
SortByScore(entries) ==
    IF entries = <<>> THEN <<>>
    ELSE InsertByScore(SortByScore(SubSeq(entries, 1, Len(entries) - 1)),
                       entries[Len(entries)])

\* entries[:top_n] for top_n >= 0
Truncate(entries, top_n) == SubSeq(entries, 1, IF Len(entries) < top_n THEN Len(entries) ELSE top_n)

\* lines 305-317: the entries, in the order of the Counter
ArtistEntries(gts, artists) ==
    [j \in 1..Len(artists) |->
        [name |-> FindArtistDisplay(gts, artists[j].k), score |-> Round2(artists[j].v)]]

SongEntries(gts, songs) ==
    [j \in 1..Len(songs) |->
        [name |-> StatsOf(gts, songs[j].k).track_name,
         artist |-> StatsOf(gts, songs[j].k).artist_name,
         score |-> Round2(songs[j].v)]]

\* _calculate_fle_rankings
CalculateFleRankings(gts, context_data, top_n) ==
    [artists |-> Truncate(SortByScore(ArtistEntries(gts, context_data.artists)), top_n),
     songs |-> Truncate(SortByScore(SongEntries(gts, context_data.songs)), top_n)]

\* lines 289-291: the largest monthly score of the artist
RECURSIVE PeakFle(_, _)
PeakFle(monthly_data, low_name) ==
    IF monthly_data = <<>> THEN Zero
    ELSE LET rest == PeakFle(Tail(monthly_data), low_name)
             here == ScoreOf(monthly_data[1].artists, low_name)
         IN IF FLess(rest, here) THEN here ELSE rest

\* lines 284-292: the tags of one artist of the all-time ranking; the score
\* that divides the peak is the rounded score of the ranking entry
Tagged(self, artist) ==
    LET low_name     == Lower(artist.name)
        total_months == Len(self.monthly_data)
        presence     == IF HasKey(self.artist_monthly_presence, low_name)
                        THEN Cardinality(self.artist_monthly_presence[
                                 IndexOf(self.artist_monthly_presence, low_name)].v)
                        ELSE 0
    IN [name |-> artist.name, score |-> artist.score,
        loyalty_score |-> IF total_months > 0 THEN Round2(Frac(presence, total_months)) ELSE 0,
        binge_index |-> IF artist.score > 0
                        THEN Round2(FDiv(PeakFle(self.monthly_data, low_name),
                                         Frac(artist.score, 100)))
                        ELSE 0]

\* lines 294-296: the rankings of the months in sorted order, with the entropy
RECURSIVE MonthReports(_, _, _)
MonthReports(self, keys, top_n) ==
    IF keys = <<>> THEN <<>>
    ELSE <<[k |-> keys[1],
            v |-> CalculateFleRankings(self.global_track_stats,
                     self.monthly_data[IndexOf(self.monthly_data, keys[1])], top_n),
            entropy |-> IF HasKey(self.monthly_entropy, keys[1])
                        THEN Round2(Frac(self.monthly_entropy[
                                 IndexOf(self.monthly_entropy, keys[1])].v, 1024))
                        ELSE 0]>>
         \o MonthReports(self, Tail(keys), top_n)

\* lines 298-299: the rankings of the years in sorted order
RECURSIVE YearReports(_, _, _)
YearReports(self, keys, top_n) ==
    IF keys = <<>> THEN <<>>
    ELSE <<[k |-> keys[1],
            v |-> CalculateFleRankings(self.global_track_stats,
                     self.yearly_data[IndexOf(self.yearly_data, keys[1])], top_n)]>>
         \o YearReports(self, Tail(keys), top_n)

\* reading self.eras before _finalize_intelligence assigned it: AttributeError
GetReportRaises(self) == ~self.eras.defined

NoReport == [stats |-> NewStats, eras |-> <<>>, entropy |-> <<>>, monthly |-> <<>>,
             yearly |-> <<>>, alltime |-> [artists |-> <<>>, songs |-> <<>>]]

GetReport(self, top_n) ==
    LET alltime == CalculateFleRankings(self.global_track_stats, self.alltime_data, top_n)
    IN [stats |-> self.stats,
        eras |-> self.eras.list,
        entropy |-> self.monthly_entropy,
        monthly |-> MonthReports(self, SortedKeys(KeysOf(self.monthly_data)), top_n),
        yearly |-> YearReports(self, SortedKeys(KeysOf(self.yearly_data)), top_n),
        alltime |-> [artists |-> [j \in 1..Len(alltime.artists) |->
                                     Tagged(self, alltime.artists[j])],
                     songs |-> alltime.songs]]

----------------------------------------------------------------------------
(* The inputs of the model *)

Song         == <<"S", "o", "n", "g">>
SongUpper    == <<"S", "O", "N", "G">>
SongRemaster == Song \o <<" ", "-", " ", "R", "e", "m", "a", "s", "t", "e", "r">>
Other        == <<"O", "t", "h", "e", "r">>
Art          == <<"A", "r", "t">>
ArtUpper     == <<"A", "R", "T">>
Band         == <<"B", "a", "n", "d">>
Blank        == <<" ", " ">>

\* two decimal digits
TwoDigits(n) == <<DigitChars[(n \div 10) + 1], DigitChars[(n % 10) + 1]>>

\* strftime("%Y-%m-%dT%H:%M:%SZ") of a time of day on date (a text "YYYY-MM-DD")
Clock(date, h, mi, sec) ==
    date \o <<"T">> \o TwoDigits(h) \o <<":">> \o TwoDigits(mi) \o <<":">>
         \o TwoDigits(sec) \o <<"Z">>

NewYearsEve == <<"2", "0", "2", "2", "-", "1", "2", "-", "3", "1">>
NewYearsDay == <<"2", "0", "2", "3", "-", "0", "1", "-", "0", "1">>

TsA == Clock(NewYearsEve, 23, 59, 59)
TsB == Clock(NewYearsDay, 0, 0, 0)
TsC == Clock(NewYearsDay, 0, 3, 5)

\* the raw events of Spec: plays of one track at three instants (a full one
\* in each month, one at the scoring limit that the histogram leaves out, a
\* short one); a remaster of it with the timestamp and duration of a play of
\* the bare name; a differently cased spelling; another artist's track with
\* and without a duration; and an event without a track name
RawEvents ==
    { RawEvent(Str(TsA), Str(Song), Str(Art), Num(180000)),
      RawEvent(Str(TsB), Str(Song), Str(Art), Num(5000)),
      RawEvent(Str(TsB), Str(Song), Str(Art), Num(180000)),
      RawEvent(Str(TsC), Str(Song), Str(Art), Num(10000)),
      RawEvent(Str(TsB), Str(SongRemaster), Str(Art), Num(180000)),
      RawEvent(Str(TsC), Str(SongUpper), Str(ArtUpper), Num(180000)),
      RawEvent(Str(TsC), Str(Other), Str(Band), Null),
      RawEvent(Str(TsC), Str(Other), Str(Band), Num(180000)),
      RawEvent(Str(TsB), Null, Str(Art), Num(180000)) }

\* the raw events of SpecNorm: what the normalizer refuses (a value that is no
\* object; a missing, empty, zoneless or numeric ts; a null or blank track; a
\* null artist; both null, as in test_null_handling), next to a play with a
\* null duration, a podcast episode and a full play
TsNoZone == SubSeq(TsB, 1, Len(TsB) - 1)

NormEvents ==
    { NotAMapping,
      RawEvent(Null, Str(Song), Str(Art), Num(180000)),
      RawEvent(Str(<<>>), Str(Song), Str(Art), Num(180000)),
      RawEvent(Str(TsNoZone), Str(Song), Str(Art), Num(180000)),
      RawEvent(Num(2023), Str(Song), Str(Art), Num(180000)),
      RawEvent(Str(TsB), Null, Str(Art), Num(180000)),
      RawEvent(Str(TsB), Str(Song), Null, Num(180000)),
      RawEvent(Str(TsB), Str(Blank), Str(Art), Num(180000)),
      RawEvent(Str(TsB), Null, Null, Num(10000)),
      RawEvent(Str(TsB), Str(Song), Str(Art), Null),
      RawEvent(Str(TsC), Str(Song), Str(Art), Num(180000)),
      Episode(Str(TsB), Str(Other), Str(Band), Num(180000)) }

\* the raw events of SpecCanon: the bare name, and the name followed by a
\* version marker, one of them written with an em dash
HyphenMarkers ==
    { <<" ", "-", " ", "2", "0", "1", "1", " ", "R", "e", "m", "a", "s", "t", "e", "r">>,
      <<" ", "-", " ", "L", "i", "v", "e">>,
      <<" ", "-", " ", "d", "e", "l", "u", "x", "e">> }

ParenMarkers ==
    { <<" ", "(", "M", "o", "n", "o", ")">>,
      <<" ", "(", "R", "a", "d", "i", "o", " ", "E", "d", "i", "t", ")">>,
      <<" ", "(", "B", "o", "n", "u", "s", " ", "T", "r", "a", "c", "k", ")">> }

EmDashMarker ==
    <<" ", EmDash, " ", "2", "0", "1", "1", " ", "R", "e", "m", "a", "s", "t", "e", "r">>

CanonEvents ==
    { RawEvent(Str(TsA), Str(Song), Str(Art), Num(180000)) }
    \cup { RawEvent(Str(TsB), Str(Song \o m), Str(Art), Num(180000)) :
             m \in HyphenMarkers \cup ParenMarkers }
    \cup { RawEvent(Str(TsC), Str(Song \o EmDashMarker), Str(Art), Num(180000)) }

\* test_negative_glitch: the ten full listens of the history, five minutes apart
HistoryLen == 10

History ==
    [n \in 1..HistoryLen |->
        RawEvent(Str(Clock(NewYearsDay, 0, (n - 1) * 5, 0)), Str(Song), Str(Art), Num(180000))]

\* the raw events of SpecGlitch: a 10 s report of the track of the history at
\* 10:03:00, a report of 3 s, a report of exactly 15% of the reference, the
\* other track 185 s later, at exactly 80% and 120% of the reference later,
\* and a 10 s report of the other track
GlitchEvents ==
    { RawEvent(Str(Clock(NewYearsDay, 10, 3, 0)), Str(Song), Str(Art), Num(10000)),
      RawEvent(Str(Clock(NewYearsDay, 10, 3, 0)), Str(Song), Str(Art), Num(3000)),
      RawEvent(Str(Clock(NewYearsDay, 10, 3, 0)), Str(Song), Str(Art), Num(27000)),
      RawEvent(Str(Clock(NewYearsDay, 10, 3, 0)), Str(Other), Str(Band), Num(10000)),
      RawEvent(Str(Clock(NewYearsDay, 10, 5, 24)), Str(Other), Str(Band), Num(180000)),
      RawEvent(Str(Clock(NewYearsDay, 10, 6, 5)), Str(Other), Str(Band), Num(180000)),
      RawEvent(Str(Clock(NewYearsDay, 10, 6, 36)), Str(Other), Str(Band), Num(180000)) }

\* the raw events of SpecScore: two tracks with short reports that drive the
\* histogram (a tie of 10 s and 20 s, broken by a second report of either), a
\* report of exactly 5000 ms, a report below 5000 ms, a track of 1100 s, and a
\* report whose ms_played is the number as a JSON string
QuotedMs == Str(Decimal(180000))

ScoreEvents ==
    { RawEvent(Str(TsA), Str(Song), Str(Art), Num(10000)),
      RawEvent(Str(TsB), Str(Song), Str(Art), Num(20000)),
      RawEvent(Str(TsB), Str(Song), Str(Art), Num(10000)),
      RawEvent(Str(TsC), Str(Song), Str(Art), Num(20000)),
      RawEvent(Str(TsB), Str(Other), Str(Band), Num(3000)),
      RawEvent(Str(TsB), Str(Other), Str(Band), Num(1100000)),
      RawEvent(Str(TsC), Str(Other), Str(Band), Num(5000)),
      RawEvent(Str(TsA), Str(Other), Str(Band), QuotedMs) }

\* test_stage_detection: the number of hourly listens of each artist, and the
\* days from the first listen of the first artist to the first of the second
EraListens == 150

EraOffset == 20

\* the offset of the test, and one that puts the second artist into February
EraOffsets == {EraOffset, 31}

\* strftime("%Y-%m-%d") of the day that lies day days after 2023-01-01
EraDate(day) ==
    IF day < 31
    THEN SubSeq(NewYearsDay, 1, 8) \o TwoDigits(day + 1)
    ELSE SubSeq(NewYearsDay, 1, 6) \o <<"2", "-">> \o TwoDigits(day - 30)

\* the listen of an artist that ends n hours after the midnight of a day
EraListen(track, artist, day, n) ==
    RawEvent(Str(Clock(EraDate(day + (n \div 24)), n % 24, 0, 0)),
             Str(track), Str(artist), Num(180000))

\* the corpus of test_stage_detection, every listen with the track of its artist
EraCorpus(offset) ==
    [n \in 1..(2 * EraListens) |->
        IF n <= EraListens
        THEN EraListen(Song, Art, 0, n - 1)
        ELSE EraListen(Other, Band, offset, n - EraListens - 1)]

\* the raw events of SpecEra: one more listen of either artist in March
EraEvents ==
    { RawEvent(Str(Clock(SubSeq(NewYearsDay, 1, 6) \o <<"3", "-", "0", "1">>, 0, 0, 0)),
               Str(Song), Str(Art), Num(180000)),
      RawEvent(Str(Clock(SubSeq(NewYearsDay, 1, 6) \o <<"3", "-", "0", "1">>, 0, 0, 0)),
               Str(Other), Str(Band), Num(180000)) }

\* the raw events of SpecMonths: after a first file with one listen in
\* December 2022, listens of two artists in December, January and February
\* (the first artist with a second track in February), and three reports of
\* a track of 1100 s: a full one and one of 5000 ms at the same instant of
\* January, and one of 5000 ms in February
TsD == Clock(EraDate(31), 0, 0, 0)

FirstFile == << RawEvent(Str(TsA), Str(Song), Str(Art), Num(180000)) >>

MonthEvents ==
    { RawEvent(Str(TsA), Str(Other), Str(Band), Num(180000)),
      RawEvent(Str(TsB), Str(Other), Str(Band), Num(180000)),
      RawEvent(Str(TsB), Str(Song), Str(Art), Num(180000)),
      RawEvent(Str(TsD), Str(Song), Str(Art), Num(180000)),
      RawEvent(Str(TsD), Str(Other), Str(Band), Num(180000)),
      RawEvent(Str(TsD), Str(Other), Str(Art), Num(180000)),
      RawEvent(Str(TsB), Str(Other), Str(Band), Num(5000)),
      RawEvent(Str(TsB), Str(Other), Str(Band), Num(1100000)),
      RawEvent(Str(TsD), Str(Other), Str(Band), Num(5000)) }

\* the values of top_n that get_report is called with
TopNs == {0, 1, 10}

----------------------------------------------------------------------------
(* The state machine: one run of the analyzer, driven through its methods  *)
(* in the order of load_and_analyze, finalize_durations being callable at  *)
(* any point of the collection (as the tests do) or not at all             *)

VARIABLES
    self,         \* the SpotifyAnalyzer object
    pc,           \* "pass1", "scoring", "processed", "reported" or "raised"
    i,            \* process_data: the index of the loop (from 1)
    prev_record,  \* process_data: the index of prev_record, 0 for None
    error,        \* the exception that ended the run, "" for none
    report,       \* what get_report returned
    room,         \* the number of raw events the driver may still pass
    log,          \* history: the raw events passed to collect_records, and
                  \* what became of each
    steps,        \* history: what process_data made of each record
    finalized     \* history: whether finalize_durations was called, and
                  \* whether a record was accepted after the last call

vars == <<self, pc, i, prev_record, error, report, room, log, steps, finalized>>

\* the state after collect_records(events) on the analyzer self, with its log
\* (the events are passed on by halves; CollectRest looks at the log of the
\* first half before it goes into the second, which keeps the evaluation from
\* nesting once per event)
RECURSIVE CollectAll(_, _, _)
RECURSIVE CollectRest(_, _)
CollectAll(analyzer, events, seen) ==
    IF events = <<>> THEN [self |-> analyzer, log |-> seen]
    ELSE IF Len(events) = 1
    THEN [log |-> Append(seen, [record |-> events[1],
                                verdict |-> Verdict(analyzer, events[1])]),
          self |-> CollectRecord(analyzer, events[1])]
    ELSE CollectRest(CollectAll(analyzer, SubSeq(events, 1, Len(events) \div 2), seen),
                     SubSeq(events, (Len(events) \div 2) + 1, Len(events)))

CollectRest(done, events) ==
    IF done.log = <<>> THEN CollectAll(done.self, events, <<>>)
    ELSE CollectAll(done.self, events, done.log)

\* the state after SpotifyAnalyzer() and collect_records(events)
InitWith(events) ==
    /\ self = CollectAll(NewAnalyzer, events, <<>>).self
    /\ pc = "pass1"
    /\ i = 0
    /\ prev_record = 0
    /\ error = ""
    /\ report = NoReport
    /\ room = MaxEvents
    /\ log = CollectAll(NewAnalyzer, events, <<>>).log
    /\ steps = <<>>
    /\ finalized = [called |-> FALSE, stale |-> FALSE]

Init == InitWith(<<>>)

\* collect_records([record])
Collect(record) ==
    /\ pc = "pass1"
    /\ room > 0
    /\ room' = room - 1
    /\ self' = CollectRecord(self, record)
    /\ log' = Append(log, [record |-> record, verdict |-> Verdict(self, record)])
    /\ finalized' = [finalized EXCEPT !.stale = @ \/ Verdict(self, record) = "accepted"]
    /\ UNCHANGED <<pc, i, prev_record, error, report, steps>>

\* finalize_durations()
Finalize ==
    /\ pc = "pass1"
    /\ IF FinalizeRaises(self)
       THEN /\ pc' = "raised"
            /\ error' = "ZeroDivisionError"
            /\ UNCHANGED <<self, finalized>>
       ELSE /\ self' = FinalizeDurations(self)
            /\ finalized' = [called |-> TRUE, stale |-> FALSE]
            /\ UNCHANGED <<pc, error>>
    /\ UNCHANGED <<i, prev_record, report, room, log, steps>>

\* process_data(), lines 142-148: nothing to do, or the sort
ProcessDataStart ==
    /\ pc = "pass1"
    /\ IF self.all_records = <<>>
       THEN /\ pc' = "processed"
            /\ UNCHANGED <<self, i, prev_record>>
       ELSE /\ self' = [self EXCEPT !.all_records = SortByTs(@)]
            /\ i' = 1
            /\ prev_record' = 0
            /\ pc' = "scoring"
    /\ UNCHANGED <<error, report, room, log, steps, finalized>>

\* process_data(), lines 150-197: one iteration of the loop
ScoreStep ==
    /\ pc = "scoring"
    /\ i <= Len(self.all_records)
    /\ LET r == ScoreRecord(self, prev_record, i)
       IN /\ self' = r.self
          /\ steps' = Append(steps, [outcome |-> r.outcome, repaired |-> r.repaired,
                                     effective_ms |-> r.effective_ms, ref_ms |-> r.ref_ms,
                                     fle |-> r.fle, prev |-> prev_record])
          /\ IF r.outcome = "TypeError"
             THEN /\ pc' = "raised"
                  /\ error' = "TypeError"
                  /\ UNCHANGED <<i, prev_record>>
             ELSE /\ i' = i + 1
                  /\ prev_record' = r.prev
                  /\ UNCHANGED <<pc, error>>
    /\ UNCHANGED <<report, room, log, finalized>>

\* process_data(), lines 199-200: the end of the loop and _finalize_intelligence
ProcessDataEnd ==
    /\ pc = "scoring"
    /\ i > Len(self.all_records)
    /\ self' = FinalizeIntelligence(self)
    /\ pc' = "processed"
    /\ UNCHANGED <<i, prev_record, error, report, room, log, steps, finalized>>

\* get_report(top_n)
Report(top_n) ==
    /\ pc = "processed"
    /\ IF GetReportRaises(self)
       THEN /\ pc' = "raised"
            /\ error' = "AttributeError"
            /\ UNCHANGED report
       ELSE /\ report' = GetReport(self, top_n)
            /\ pc' = "reported"
            /\ UNCHANGED error
    /\ UNCHANGED <<self, i, prev_record, room, log, steps, finalized>>

\* the calls after the collection
Run ==
    \/ Finalize
    \/ ProcessDataStart
    \/ ScoreStep
    \/ ProcessDataEnd
    \/ \E top_n \in TopNs : Report(top_n)

Next ==
    \/ \E record \in RawEvents : Collect(record)
    \/ Run

Spec == Init /\ [][Next]_vars

\* the run over the events the normalizer refuses
NextNorm ==
    \/ \E record \in NormEvents : Collect(record)
    \/ Run

SpecNorm == Init /\ [][NextNorm]_vars

\* the run over the variants of one track name
NextCanon ==
    \/ \E record \in CanonEvents : Collect(record)
    \/ Run

SpecCanon == Init /\ [][NextCanon]_vars

\* the run of test_negative_glitch: the history is collected, then the glitch
InitGlitch == InitWith(History)

NextGlitch ==
    \/ \E record \in GlitchEvents : Collect(record)
    \/ Run

SpecGlitch == InitGlitch /\ [][NextGlitch]_vars

\* the run over the short and the odd duration reports
NextScore ==
    \/ \E record \in ScoreEvents : Collect(record)
    \/ Run

SpecScore == Init /\ [][NextScore]_vars

\* the run of test_stage_detection on this analyzer: the corpus is collected
InitEra == \E offset \in EraOffsets : InitWith(EraCorpus(offset))

NextEra ==
    \/ \E record \in EraEvents : Collect(record)
    \/ Run

SpecEra == InitEra /\ [][NextEra]_vars

\* the run over three months, after the first file
InitMonths == InitWith(FirstFile)

NextMonths ==
    \/ \E record \in MonthEvents : Collect(record)
    \/ Run

SpecMonths == InitMonths /\ [][NextMonths]_vars

\* a mutant of BeforeFinalize: files are still collected after line 424
BeforeFinalizeOrAfter == TRUE

\* load_and_analyze is in its loop over the files: line 424 is not reached
BeforeFinalize == ~finalized.called

\* load_and_analyze, lines 416-422: one more record of a file is collected
LoadCollect(record) ==
    /\ BeforeFinalize
    /\ Collect(record)

\* line 424, after the loop
LoadFinalize ==
    /\ ~finalized.called
    /\ Finalize

\* line 427, after line 424
LoadProcess ==
    /\ finalized.called
    /\ ProcessDataStart

\* the run of load_and_analyze: each call at its place
NextLoad ==
    \/ \E record \in ScoreEvents : LoadCollect(record)
    \/ LoadFinalize
    \/ LoadProcess
    \/ ScoreStep
    \/ ProcessDataEnd
    \/ \E top_n \in TopNs : Report(top_n)

SpecLoad == Init /\ [][NextLoad]_vars

----------------------------------------------------------------------------
(* The properties *)

\* the indices of the log whose raw event was not refused
Valid == {j \in 1..Len(log) : log[j].verdict # "rejected"}

\* the cumulative scores of an analyzer
Scores(analyzer) ==
    <<analyzer.monthly_data, analyzer.yearly_data, analyzer.alltime_data>>

\* finalize_durations and process_data on an analyzer: the scores they leave
\* and the exception that ended them
Outcome(analyzer) ==
    IF FinalizeRaises(analyzer) THEN [scores |-> <<>>, error |-> "ZeroDivisionError"]
    ELSE LET r == ProcessData(FinalizeDurations(analyzer))
         IN [scores |-> Scores(r.self), error |-> r.error]

\* the step passes to collect_records a raw event that an earlier call accepted
Replay ==
    /\ Len(log') = Len(log) + 1
    /\ \E j \in Valid : log[j].record = log'[Len(log')].record

\* C1: passing a valid raw event to collect_records a second time adds 1 to
\* stats.duplicates, adds no record to the corpus and no observation to the
\* duration histogram, and finalize_durations + process_data then leave the
\* monthly, yearly and all-time scores of the run without the replay.
C1_ReplayCountsAsDuplicate ==
    [][Replay =>
         /\ self'.stats.duplicates = self.stats.duplicates + 1
         /\ self'.all_records = self.all_records
         /\ self'.duration_index = self.duration_index
         /\ Outcome(self') = Outcome(self)]_vars

C1_Witness ==
    /\ pc = "reported"
    /\ \E j \in 1..Len(log) : log[j].verdict = "duplicate"
    /\ self.stats.duplicates = 1
    /\ Len(self.all_records) = 2
    /\ report.alltime.songs # <<>>

\* the steps of the scoring pass that accumulated a score
ScoredSteps == {k \in 1..Len(steps) : steps[k].outcome = "scored"}

\* C2: every listen that the scoring pass accumulates contributes a score fle
\* with 0 < fle <= 2, also for a track whose reference duration is the
\* default 1.
C2_FleBounds ==
    \A k \in ScoredSteps :
        /\ steps[k].fle.n > 0
        /\ steps[k].fle.d > 0
        /\ steps[k].fle.n <= 2 * steps[k].fle.d

C2_Witness ==
    /\ \E k \in ScoredSteps : steps[k].ref_ms = 1 /\ steps[k].fle = Frac(2, 1)
    /\ \E k \in ScoredSteps : steps[k].ref_ms = 180000 /\ FLess(steps[k].fle, Frac(1, 1))

\* C3: the sequence collect_records, finalize_durations, process_data,
\* get_report finishes without raising for every corpus, the empty one
\* included.
C3_RunNeverRaises == pc # "raised"

\* C4: every raw event the normalizer refuses adds 1 to stats.skipped, so the
\* raw events seen are the accepted records, the duplicates and the skipped.
C4_RejectedAreCounted ==
    Len(log) = Len(self.all_records) + self.stats.duplicates + self.stats.skipped

\* the steps of the scoring pass that went past the fusion test
Unfused == {k \in 1..Len(steps) : steps[k].outcome \in {"scored", "dropped"}}

\* the time in ms from record k of the sorted corpus to its successor
GapAfter(k) == (self.all_records[k + 1].ts - self.all_records[k].ts) * 1000

\* the reference duration and the trust of the track of record k
RefOf(k) == StatsOf(self.global_track_stats, self.all_records[k].track_id).ref_ms

TrustOf(k) == StatsOf(self.global_track_stats, self.all_records[k].track_id).trust

\* the repair rule for record k: a successor, reported < 0.15 ref,
\* 0.8 ref < gap < 1.2 ref and trust > 0.5
RepairRule(k) ==
    /\ k + 1 <= Len(self.all_records)
    /\ 100 * self.all_records[k].ms_played.n < 15 * RefOf(k)
    /\ 5 * GapAfter(k) > 4 * RefOf(k)
    /\ 5 * GapAfter(k) < 6 * RefOf(k)
    /\ 2 * TrustOf(k).n > TrustOf(k).d

\* record k is the 10 s report of the track of the history, record k + 1 the
\* other track 185 s later
GlitchAt(k) ==
    /\ k + 1 <= Len(self.all_records)
    /\ self.all_records[k].ts_str = Clock(NewYearsDay, 10, 3, 0)
    /\ self.all_records[k].track_id = <<Lower(Song), Lower(Art)>>
    /\ self.all_records[k].ms_played = Num(10000)
    /\ self.all_records[k + 1].ts_str = Clock(NewYearsDay, 10, 6, 5)
    /\ self.all_records[k + 1].track_id = <<Lower(Other), Lower(Band)>>

\* C5: a record that is not fused gets effective duration ref, and adds 1 to
\* stats.repaired, exactly when it has a successor, reported < 0.15 ref,
\* 0.8 ref < gap < 1.2 ref and trust > 0.5, all strict; otherwise its effective
\* duration is the reported one.  After ten full 180000 ms listens, a 10000 ms
\* report followed 185 s later by another track is repaired and scores more
\* than 0.8.
C5_GapRepair ==
    /\ \A k \in Unfused :
          /\ steps[k].repaired <=> RepairRule(k)
          /\ steps[k].effective_ms =
                IF RepairRule(k) THEN RefOf(k) ELSE self.all_records[k].ms_played.n
    /\ self.stats.repaired = Cardinality({k \in 1..Len(steps) : steps[k].repaired})
    /\ \A k \in Unfused :
          finalized.called /\ GlitchAt(k) =>
             /\ steps[k].repaired
             /\ steps[k].outcome = "scored"
             /\ FLess(Frac(8, 10), steps[k].fle)

C5_Witness ==
    /\ pc = "reported"
    /\ Len(log) = HistoryLen + 2
    /\ self.stats.repaired = 1
    /\ \E k \in Unfused : GlitchAt(k) /\ steps[k].repaired /\ steps[k].fle = Frac(1, 1)

\* C6: the reference duration of every track is at least 1 in every state,
\* before and after finalize_durations, also for a track without histogram
\* observations, so that the scoring pass never divides by zero.
C6_ReferenceAtLeastOne ==
    /\ \A j \in 1..Len(self.global_track_stats) : self.global_track_stats[j].ref_ms >= 1
    /\ \A k \in 1..Len(steps) : steps[k].ref_ms >= 1

C6_Witness ==
    /\ finalized.called
    /\ ~finalized.stale
    /\ \E j \in 1..Len(self.global_track_stats) :
          /\ self.global_track_stats[j].ref_ms = 1
          /\ \A k \in 1..Len(self.all_records) :
                self.all_records[k].track_id = self.global_track_stats[j].k
                   => self.all_records[k].ms_played = Num(0)
          /\ \E k \in 1..Len(steps) :
                self.all_records[k].track_id = self.global_track_stats[j].k
    /\ \E j \in 1..Len(self.global_track_stats) : self.global_track_stats[j].ref_ms = 180000

\* the deduplication key of a raw event: the timestamp text, the reported
\* duration and the lowercase raw names
RawKey(record) ==
    <<record.ts, MsPlayedOf(record), Lower(TrackOf(record)), Lower(ArtistOf(record))>>

\* record k of the corpus shares its canonical identity, its timestamp and
\* its duration, but not its raw identity, with another record
Colliding(k) ==
    \E m \in 1..Len(self.all_records) :
        /\ self.all_records[m].track_id = self.all_records[k].track_id
        /\ self.all_records[m].raw_track_id # self.all_records[k].raw_track_id
        /\ self.all_records[m].ts_str = self.all_records[k].ts_str
        /\ self.all_records[m].ms_played = self.all_records[k].ms_played

\* the fusion test for record k: the last scored record has its canonical
\* identity and a timestamp less than a second earlier
FusionRule(k) ==
    /\ steps[k].prev # 0
    /\ self.all_records[steps[k].prev].track_id = self.all_records[k].track_id
    /\ self.all_records[k].ts - self.all_records[steps[k].prev].ts < 1

SongId == << <<"s", "o", "n", "g">>, <<"a", "r", "t">> >>

ArtKey == <<"a", "r", "t">>

\* the track name and the artist name of a raw event that has both
TrackNameOf(record) ==
    IF record.master_metadata_track_name.k # "null"
    THEN record.master_metadata_track_name ELSE record.episode_name

ArtistNameOf(record) ==
    IF record.master_metadata_album_artist_name.k # "null"
    THEN record.master_metadata_album_artist_name ELSE record.episode_show_name

\* the song counters and the artist counters of all buckets
SongCounters ==
    {self.alltime_data.songs}
    \cup {self.monthly_data[j].songs : j \in 1..Len(self.monthly_data)}
    \cup {self.yearly_data[j].songs : j \in 1..Len(self.yearly_data)}

ArtistCounters ==
    {self.alltime_data.artists}
    \cup {self.monthly_data[j].artists : j \in 1..Len(self.monthly_data)}
    \cup {self.yearly_data[j].artists : j \in 1..Len(self.yearly_data)}

\* the song rankings and the artist rankings of a report
SongRankings ==
    {report.alltime.songs}
    \cup {report.monthly[j].v.songs : j \in 1..Len(report.monthly)}
    \cup {report.yearly[j].v.songs : j \in 1..Len(report.yearly)}

ArtistRankings ==
    {report.alltime.artists}
    \cup {report.monthly[j].v.artists : j \in 1..Len(report.monthly)}
    \cup {report.yearly[j].v.artists : j \in 1..Len(report.yearly)}

\* the sum of the scores of the first k steps of the scoring pass
RECURSIVE FleSum(_)
FleSum(k) ==
    IF k = 0 THEN Zero
    ELSE FAdd(FleSum(k - 1), IF steps[k].outcome = "scored" THEN steps[k].fle ELSE Zero)

\* every accepted raw event names the track and the artist in one of two
\* spellings that differ only by letter case
CaseVariantsOnly ==
    \A j \in Valid :
        /\ log[j].record.master_metadata_track_name \in {Str(Song), Str(SongUpper)}
        /\ log[j].record.master_metadata_album_artist_name \in {Str(Art), Str(ArtUpper)}

\* C8: records whose track and artist names differ only by letter case have
\* one CanonicalTrackID and one artist key, and their scores accumulate into
\* one song entry and one artist entry in every bucket and every ranking.
C8_CaseInsensitiveIdentity ==
    CaseVariantsOnly =>
       /\ \A k \in 1..Len(self.all_records) : self.all_records[k].track_id = SongId
       /\ \A c \in SongCounters : Len(c) <= 1 /\ \A e \in 1..Len(c) : c[e].k = SongId
       /\ \A c \in ArtistCounters : Len(c) <= 1 /\ \A e \in 1..Len(c) : c[e].k = ArtKey
       /\ ScoredSteps # {} =>
             /\ self.alltime_data.songs[1].v = FleSum(Len(steps))
             /\ self.alltime_data.artists[1].v = FleSum(Len(steps))
       /\ \A r \in SongRankings \cup ArtistRankings : Len(r) <= 1

C8_Witness ==
    /\ pc = "reported"
    /\ CaseVariantsOnly
    /\ \E j \in Valid : log[j].record.master_metadata_track_name = Str(Song)
    /\ \E j \in Valid : log[j].record.master_metadata_track_name = Str(SongUpper)
    /\ self.stats.processed = 2
    /\ Len(report.alltime.songs) = 1
    /\ report.alltime.songs[1].score = 200
    /\ Len(report.alltime.artists) = 1

\* the names that carry a version marker the canonicalization knows
MarkedNames == {Str(Song \o m) : m \in HyphenMarkers \cup ParenMarkers}

\* no raw event of the log writes the marker with an em dash
NoEmDash == \A j \in Valid : log[j].record.master_metadata_track_name # Str(Song \o EmDashMarker)

\* C9 as claimed: every variant of the name, "Song -- 2011 Remaster" with an
\* em dash included, resolves to the CanonicalTrackID of the bare name.
C9_EveryVariantMerges ==
    \A k \in 1..Len(self.all_records) : self.all_records[k].track_id = SongId

\* C9: a name with a version marker written with " - " (2011 Remaster, Live,
\* Deluxe, in any letter case) or in parentheses (Mono, Radio Edit, Bonus
\* Track) and the bare name by the same artist resolve to one
\* CanonicalTrackID, with one reference duration and one cumulative score, and
\* stats.canonized counts the events whose name carries such a marker; a
\* marker written with an em dash is not removed and is not counted.
C9_CanonicalizationMerge ==
    /\ \A j \in Valid :
          log[j].record.master_metadata_track_name \in MarkedNames \cup {Str(Song)} =>
             \E e \in 1..Len(self.canon_track_map) :
                /\ self.canon_track_map[e].k =
                      <<Lower(log[j].record.master_metadata_track_name.s), ArtKey>>
                /\ self.canon_track_map[e].v = SongId
    /\ self.stats.canonized =
          Cardinality({j \in Valid : log[j].record.master_metadata_track_name \in MarkedNames})
    /\ NoEmDash =>
          /\ \A k \in 1..Len(self.all_records) : self.all_records[k].track_id = SongId
          /\ Len(self.global_track_stats) <= 1
          /\ Len(self.duration_index) <= 1
          /\ \A c \in SongCounters : Len(c) <= 1 /\ \A e \in 1..Len(c) : c[e].k = SongId
          /\ ScoredSteps # {} => self.alltime_data.songs[1].v = FleSum(Len(steps))

C9_Witness ==
    /\ pc = "processed"
    /\ NoEmDash
    /\ \E j \in Valid : log[j].record.master_metadata_track_name = Str(Song)
    /\ \E j \in Valid :
          log[j].record.master_metadata_track_name \in {Str(Song \o m) : m \in HyphenMarkers}
    /\ \E j \in Valid :
          log[j].record.master_metadata_track_name \in {Str(Song \o m) : m \in ParenMarkers}
    /\ self.stats.canonized = 2
    /\ Len(self.global_track_stats) = 1
    /\ self.global_track_stats[1].ref_ms = 180000
    /\ self.alltime_data.songs = <<[k |-> SongId, v |-> Frac(2, 1)]>>

\* the raw event is an object whose track name, or artist name, is null with
\* no podcast field in its place
NullNamed(record) ==
    /\ record.kind = "dict"
    /\ \/ TrackNameOf(record) = Null
       \/ ArtistNameOf(record) = Null

\* C10: a raw event whose track or artist is null is skipped and never enters
\* the corpus, no song or artist entry of any bucket comes from it, and a
\* null duration counts as 0 ms: no step of the run compares None.
C10_NullSafety ==
    /\ \A j \in 1..Len(log) : NullNamed(log[j].record) => log[j].verdict = "rejected"
    /\ Len(self.all_records) = Cardinality({j \in Valid : log[j].verdict = "accepted"})
    /\ \A k \in 1..Len(self.all_records) : self.all_records[k].ms_played.k = "num"
    /\ \A c \in SongCounters : \A e \in 1..Len(c) :
          \E j \in Valid :
             /\ ~NullNamed(log[j].record)
             /\ c[e].k = <<Lower(CanonicalizeTrack(Strip(TrackNameOf(log[j].record).s))),
                           Lower(Strip(ArtistNameOf(log[j].record).s))>>
    /\ \A c \in ArtistCounters : \A e \in 1..Len(c) :
          \E j \in Valid :
             /\ ~NullNamed(log[j].record)
             /\ c[e].k = Lower(Strip(ArtistNameOf(log[j].record).s))
    /\ error # "TypeError"

C10_Witness ==
    /\ pc = "reported"
    /\ \E j \in 1..Len(log) :
          /\ log[j].record.master_metadata_track_name = Null
          /\ log[j].record.master_metadata_album_artist_name = Null
          /\ log[j].verdict = "rejected"
    /\ \E j \in Valid : log[j].record.ms_played = Null
    /\ Len(self.all_records) = 2
    /\ Len(report.alltime.songs) = 1
    /\ report.alltime.songs[1].name = Song

----------------------------------------------------------------------------
(* The rankings of the report *)

\* the entries of a Counter with their exact score v and the rounded score the
\* ranking sorts by, in the order of the ranking
Ranked(counter) ==
    SortByScore([j \in 1..Len(counter) |->
                    [k |-> counter[j].k, v |-> counter[j].v, score |-> Round2(counter[j].v)]])

\* the buckets of the report: the accumulators of a bucket and its rankings
ReportBuckets ==
    {[data |-> self.alltime_data, ranking |-> report.alltime]}
    \cup {[data |-> self.monthly_data[IndexOf(self.monthly_data, report.monthly[j].k)],
           ranking |-> report.monthly[j].v] : j \in 1..Len(report.monthly)}
    \cup {[data |-> self.yearly_data[IndexOf(self.yearly_data, report.yearly[j].k)],
           ranking |-> report.yearly[j].v] : j \in 1..Len(report.yearly)}

\* a ranking of top_n entries of the counter: min(top_n, entries) of them, the
\* entry at each place having an exact score that no entry behind it in the
\* order of the ranking, returned or cut off, exceeds
RankedByFle(counter, ranking, top_n) ==
    /\ Len(ranking) = Min({top_n, Len(counter)})
    /\ \A j \in 1..Len(ranking) :
          /\ ranking[j].score = Ranked(counter)[j].score
          /\ \A m \in (j + 1)..Len(counter) :
                FLeq(Ranked(counter)[m].v, Ranked(counter)[j].v)

\* C11: for every bucket and every top_n, get_report returns exactly
\* min(top_n, number of entries) songs and artists, those of the highest
\* cumulative FLE, in non-increasing order of cumulative FLE
C11_RankedByCumulativeFle ==
    pc = "reported" =>
        \A top_n \in TopNs :
            report = GetReport(self, top_n) =>
                /\ Len(report.monthly) = Len(self.monthly_data)
                /\ Len(report.yearly) = Len(self.yearly_data)
                /\ \A b \in ReportBuckets :
                      /\ RankedByFle(b.data.songs, b.ranking.songs, top_n)
                      /\ RankedByFle(b.data.artists, b.ranking.artists, top_n)

\* the part of C11 that the code keeps: the number of entries, and the order
\* of the rounded scores
C11_RankedByRoundedScore ==
    pc = "reported" =>
        \A top_n \in TopNs :
            report = GetReport(self, top_n) =>
                \A b \in ReportBuckets :
                    /\ Len(b.ranking.songs) = Min({top_n, Len(b.data.songs)})
                    /\ Len(b.ranking.artists) = Min({top_n, Len(b.data.artists)})
                    /\ \A j \in 1..(Len(b.ranking.songs) - 1) :
                          b.ranking.songs[j].score >= b.ranking.songs[j + 1].score
                    /\ \A j \in 1..(Len(b.ranking.artists) - 1) :
                          b.ranking.artists[j].score >= b.ranking.artists[j + 1].score

----------------------------------------------------------------------------
(* The eras of the corpus of test_stage_detection *)

\* the run has processed exactly the corpus whose second artist starts offset
\* days after the first listen, in the order of load_and_analyze
EraRun(offset) ==
    /\ pc \in {"processed", "reported"}
    /\ finalized.called
    /\ ~finalized.stale
    /\ Len(log) = 2 * EraListens
    /\ log[EraListens + 1].record.ts = Str(Clock(EraDate(offset), 0, 0, 0))

DominantArtists == {self.eras.list[j].top_artist : j \in 1..Len(self.eras.list)}

\* C12: 150 hourly listens of artist A followed, starting 20 days after the
\* first listen, by 150 hourly listens of artist B yield at least 2 eras, one
\* whose dominant artist is A and one whose dominant artist is B
C12_TwoErasTwentyDaysApart ==
    EraRun(EraOffset) =>
        /\ Len(self.eras.list) >= 2
        /\ Lower(Art) \in DominantArtists
        /\ Lower(Band) \in DominantArtists

\* C12 as the code has it: the eras follow the months. Both artists of the
\* corpus fall into January, the only month, and the one era has the artist
\* that was scored first; with the second artist in the month after, there
\* is one era for each
C12_ErasFollowMonths ==
    /\ EraRun(EraOffset) =>
          /\ Len(self.eras.list) = 1
          /\ DominantArtists = {Lower(Art)}
    /\ EraRun(31) =>
          /\ Len(self.eras.list) = 2
          /\ self.eras.list[1].top_artist = Lower(Art)
          /\ self.eras.list[2].top_artist = Lower(Band)

C12_Witness ==
    /\ EraRun(31)
    /\ pc = "reported"
    /\ Len(report.eras) = 2
    /\ self.stats.processed = 2 * EraListens

----------------------------------------------------------------------------
(* The cumulative scores *)

\* min(effectiveDurationMs / referenceDurationMs, 2.0) of step k
CappedRatio(k) ==
    IF steps[k].effective_ms >= 2 * steps[k].ref_ms THEN Frac(2, 1)
    ELSE Frac(steps[k].effective_ms, steps[k].ref_ms)

\* the scored listens of a track among the first k steps whose timestamp
\* text starts with the key of the bucket (the empty key: all-time)
InBucket(k, track_id, key) ==
    /\ steps[k].outcome = "scored"
    /\ self.all_records[k].track_id = track_id
    /\ Prefix(self.all_records[k].ts_str, Len(key)) = key

\* the sum of their capped ratios
RECURSIVE TrackFle(_, _, _)
TrackFle(k, track_id, key) ==
    IF k = 0 THEN Zero
    ELSE FAdd(TrackFle(k - 1, track_id, key),
              IF InBucket(k, track_id, key) THEN CappedRatio(k) ELSE Zero)

\* the songs of a bucket are the tracks with a scored listen in it, each with
\* the sum of the capped ratios of these listens
SumsOfBucket(songs, key) ==
    /\ \A e \in 1..Len(songs) :
          /\ songs[e].v = TrackFle(Len(steps), songs[e].k, key)
          /\ \E k \in 1..Len(steps) : InBucket(k, songs[e].k, key)
    /\ \A k \in 1..Len(steps) :
          steps[k].outcome = "scored" /\ Prefix(self.all_records[k].ts_str, Len(key)) = key
              => HasKey(songs, self.all_records[k].track_id)

\* the run collected exactly these events, then computed the references
FullRunOf(events) ==
    /\ pc \in {"processed", "reported"}
    /\ finalized.called
    /\ ~finalized.stale
    /\ Len(log) = Cardinality(events)
    /\ {log[j].record : j \in 1..Len(log)} = events

TenSeconds == RawEvent(Str(TsA), Str(Song), Str(Art), Num(10000))

TwentySeconds == RawEvent(Str(TsB), Str(Song), Str(Art), Num(20000))

TwentySecondsAgain == RawEvent(Str(TsC), Str(Song), Str(Art), Num(20000))

\* C13: a track's cumulative FLE in a bucket is the sum, over its scored
\* listens in the bucket, of min(effectiveDurationMs / referenceDurationMs, 2.0);
\* two full-length listens of one track score 2, and a track heard for
\* 10000 ms and 20000 ms only scores (10 + 20) / 20 = 1.5
C13_CumulativeFle ==
    /\ SumsOfBucket(self.alltime_data.songs, <<>>)
    /\ \A j \in 1..Len(self.monthly_data) :
          SumsOfBucket(self.monthly_data[j].songs, self.monthly_data[j].k)
    /\ \A j \in 1..Len(self.yearly_data) :
          SumsOfBucket(self.yearly_data[j].songs, self.yearly_data[j].k)
    /\ FullRunOf({TwentySeconds, TwentySecondsAgain})
          => ScoreOf(self.alltime_data.songs, SongId) = Frac(2, 1)
    /\ FullRunOf({TenSeconds, TwentySeconds})
          => ScoreOf(self.alltime_data.songs, SongId) = Frac(3, 2)

C13_Witness ==
    /\ FullRunOf({TenSeconds, TwentySeconds})
    /\ pc = "reported"
    /\ Len(report.alltime.songs) = 1
    /\ report.alltime.songs[1].score = 150

----------------------------------------------------------------------------
(* The previous record of the fusion *)

\* C14: a record whose effective duration is below 5000 ms produces no score
\* but becomes the previous record of the next step, so the record after it
\* is compared for fusion against it and not against the last scored record
C14_DropAdvancesPointer ==
    \A k \in 2..Len(steps) :
        steps[k - 1].outcome = "dropped" =>
            /\ steps[k - 1].fle = Zero
            /\ steps[k].prev = k - 1

\* what the code does: the previous record of a step is the last record
\* before it that was scored, dropped and fused records being passed over
C14_PointerIsLastScored ==
    \A k \in 1..Len(steps) :
        steps[k].prev = IF \E j \in ScoredSteps : j < k
                        THEN Max({j \in ScoredSteps : j < k})
                        ELSE 0

----------------------------------------------------------------------------
(* Fragment fusion *)

\* the condition of C15 on the record the loop is at: a previous record
\* exists, has the same CanonicalTrackID, and lies less than 1000 ms back
IsFragment ==
    /\ prev_record # 0
    /\ self.all_records[prev_record].track_id = self.all_records[i].track_id
    /\ (self.all_records[i].ts - self.all_records[prev_record].ts) * 1000 < 1000

\* C15: on every step of the timestamp-ordered pass, the record is discarded
\* (stats.fused + 1 and nothing else changes: no score, no bucket, repaired
\* unchanged) exactly when a previous record exists, has the same
\* CanonicalTrackID and is less than 1000 ms older; a fused record does not
\* become the previous record
C15_FragmentFusion ==
    [][ScoreStep =>
          /\ steps'[i].outcome = "fused" <=> IsFragment
          /\ IsFragment =>
                /\ self' = [self EXCEPT !.stats.fused = @ + 1]
                /\ prev_record' = prev_record
                /\ steps'[i].fle = Zero
          /\ ~IsFragment => self'.stats.fused = self.stats.fused]_vars

\* two fragments in a row, both measured against the record before them
C15_Witness ==
    /\ \E k \in 2..(Len(steps) - 1) :
          /\ steps[k].outcome = "fused"
          /\ steps[k + 1].outcome = "fused"
          /\ steps[k].prev = k - 1
          /\ steps[k + 1].prev = k - 1
    /\ self.stats.fused = 2
    /\ pc = "reported"

----------------------------------------------------------------------------
(* The records that reach the scoring pass *)

\* C16: every record of the corpus has a non-empty track and artist, a parsed
\* timestamp and a numeric reported duration; a raw event whose ms_played is
\* not a number enters neither the corpus nor the dedup set, and the scoring
\* pass never raises because of it
C16_CorpusWellFormed ==
    /\ \A k \in 1..Len(self.all_records) :
          /\ self.all_records[k].track_id[1] # <<>>
          /\ self.all_records[k].track_id[2] # <<>>
          /\ ParseTs(Str(self.all_records[k].ts_str)).ok
          /\ self.all_records[k].ms_played.k = "num"
    /\ \A id \in self.processed_ids : id[2].k = "num"
    /\ \A j \in 1..Len(log) :
          log[j].record.ms_played.k = "str" => log[j].verdict = "rejected"
    /\ error # "TypeError"

\* the part of C16 that the code keeps: the names and the timestamp
C16_NamedAndDated ==
    \A k \in 1..Len(self.all_records) :
        /\ self.all_records[k].track_id[1] # <<>>
        /\ self.all_records[k].track_id[2] # <<>>
        /\ ParseTs(Str(self.all_records[k].ts_str)).ok
        /\ self.all_records[k].ts = ParseTs(Str(self.all_records[k].ts_str)).sec

----------------------------------------------------------------------------
(* The histogram of the durations *)

\* the histogram of a track, empty when it has none
HistogramOf(track_id) ==
    IF HasKey(self.duration_index, track_id)
    THEN self.duration_index[IndexOf(self.duration_index, track_id)].v
    ELSE <<>>

\* the number of records of the corpus of a track with a reported duration
Observations(track_id, ms) ==
    Cardinality({k \in 1..Len(self.all_records) :
                    /\ self.all_records[k].track_id = track_id
                    /\ self.all_records[k].ms_played = Num(ms)})

\* C17: every observed duration of at least 5000 ms, exactly 5000 ms
\* included, counts toward the histogram of its track, so every listen that
\* is scored with its reported duration belongs to a track with at least one
\* histogram observation
C17_HistogramFromFiveSeconds ==
    /\ \A k \in 1..Len(self.all_records) :
          self.all_records[k].ms_played.k = "num" /\ self.all_records[k].ms_played.n >= 5000
              => HasKey(HistogramOf(self.all_records[k].track_id),
                        self.all_records[k].ms_played.n)
    /\ \A k \in ScoredSteps :
          ~steps[k].repaired => HistogramOf(self.all_records[k].track_id) # <<>>

\* what the code does: the histogram of a track counts its observations
\* above 5000 ms, and no others
C17_HistogramAboveFiveSeconds ==
    /\ \A k \in 1..Len(self.all_records) :
          self.all_records[k].ms_played.k = "num" /\ self.all_records[k].ms_played.n > 5000
              => HasKey(HistogramOf(self.all_records[k].track_id),
                        self.all_records[k].ms_played.n)
    /\ \A t \in 1..Len(self.duration_index) :
          \A e \in 1..Len(self.duration_index[t].v) :
              /\ self.duration_index[t].v[e].k > 5000
              /\ self.duration_index[t].v[e].v =
                    Observations(self.duration_index[t].k, self.duration_index[t].v[e].k)

----------------------------------------------------------------------------
(* The reference duration *)

\* the references are those of the corpus as it is: finalize_durations ran
\* and no record was accepted since
ReferencesCurrent == finalized.called /\ ~finalized.stale

\* the durations in the histogram of a track
Observed(track_id) ==
    {HistogramOf(track_id)[e].k : e \in 1..Len(HistogramOf(track_id))}

\* C18: for every track with a non-empty histogram the reference duration is
\* an observed duration of maximal frequency, the largest of those that tie
\* for it, whatever the order in which the observations were collected (the
\* frequencies are counted in the corpus)
C18_ReferenceIsLargestMode ==
    ReferencesCurrent =>
        \A t \in 1..Len(self.duration_index) :
            LET track_id == self.duration_index[t].k
                ref_ms   == StatsOf(self.global_track_stats, track_id).ref_ms
            IN Observed(track_id) # {} =>
                  /\ ref_ms \in Observed(track_id)
                  /\ \A d \in Observed(track_id) :
                        \/ Observations(track_id, d) < Observations(track_id, ref_ms)
                        \/ /\ Observations(track_id, d) = Observations(track_id, ref_ms)
                           /\ d <= ref_ms

\* a tie of 10000 ms and 20000 ms, the larger collected first
C18_Witness ==
    /\ ReferencesCurrent
    /\ Len(HistogramOf(SongId)) = 2
    /\ Observations(SongId, 10000) = 1
    /\ Observations(SongId, 20000) = 1
    /\ HistogramOf(SongId)[1].k = 20000
    /\ StatsOf(self.global_track_stats, SongId).ref_ms = 20000
    /\ pc = "reported"

----------------------------------------------------------------------------
(* The trust *)

\* the records of a track that count toward its histogram, and those of
\* them of at least 80% of a reference
Counted(track_id) ==
    {k \in 1..Len(self.all_records) :
        /\ self.all_records[k].track_id = track_id
        /\ self.all_records[k].ms_played.k = "num"
        /\ self.all_records[k].ms_played.n > 5000}

FullOf(track_id, ref_ms) ==
    {k \in Counted(track_id) : 10 * self.all_records[k].ms_played.n >= 8 * ref_ms}

\* C19: the trust of a track is the number of its histogram observations of
\* at least 0.8 * referenceDurationMs over the number of all its histogram
\* observations, hence 0 < trust <= 1 when the histogram is not empty; a
\* track without histogram observation keeps the reference 1 and the trust
\* 0, and is never gap-repaired
C19_Trust ==
    /\ ReferencesCurrent =>
          \A g \in 1..Len(self.global_track_stats) :
              LET stats == self.global_track_stats[g]
              IN Observed(stats.k) # {} =>
                    /\ stats.trust = Frac(Cardinality(FullOf(stats.k, stats.ref_ms)),
                                          Cardinality(Counted(stats.k)))
                    /\ FLess(Zero, stats.trust)
                    /\ FLeq(stats.trust, Frac(1, 1))
    /\ \A g \in 1..Len(self.global_track_stats) :
          Observed(self.global_track_stats[g].k) = {} =>
              /\ self.global_track_stats[g].ref_ms = 1
              /\ self.global_track_stats[g].trust = Zero
    /\ \A k \in 1..Len(steps) :
          Observed(self.all_records[k].track_id) = {} => ~steps[k].repaired

\* a track whose two observations tie, one of them below 80% of the
\* reference, next to a scored track without any observation
C19_Witness ==
    /\ ReferencesCurrent
    /\ pc = "reported"
    /\ StatsOf(self.global_track_stats, SongId).ref_ms = 20000
    /\ StatsOf(self.global_track_stats, SongId).trust = Frac(1, 2)
    /\ \E k \in ScoredSteps :
          /\ Observed(self.all_records[k].track_id) = {}
          /\ steps[k].ref_ms = 1

----------------------------------------------------------------------------
(* The order of the two passes *)

\* the reference and the trust that finalize_durations computes for a track
\* from the corpus as it is
WholeCorpusRef(track_id) ==
    IF HistogramOf(track_id) = <<>> THEN 1 ELSE RefMs(HistogramOf(track_id))

WholeCorpusTrust(track_id) ==
    IF HistogramOf(track_id) = <<>> THEN Zero
    ELSE Trust(HistogramOf(track_id), WholeCorpusRef(track_id))

\* once process_data has started, the references are current, and every
\* scored listen was scored against the reference of the whole corpus
ScoredAgainstWholeCorpus ==
    pc \in {"scoring", "processed", "reported"} =>
        /\ ReferencesCurrent
        /\ \A k \in 1..Len(steps) :
              /\ steps[k].ref_ms = WholeCorpusRef(self.all_records[k].track_id)
              /\ StatsOf(self.global_track_stats, self.all_records[k].track_id).trust
                    = WholeCorpusTrust(self.all_records[k].track_id)

----------------------------------------------------------------------------
(* The eras as a partition of the months *)

\* the number of the month of a key "YYYY-MM", counted from the year 0
MonthNumber(key) == 12 * ToInt(SubSeq(key, 1, 4)) + ToInt(SubSeq(key, 6, 7))

\* the place of a month among the months that have data, in the order of time
MonthPlace(key) ==
    Cardinality({m \in KeysOf(self.monthly_data) : MonthNumber(m) <= MonthNumber(key)})

\* the scoring pass is over and has scored a listen
ScoredSome ==
    /\ pc \in {"processed", "reported"}
    /\ \E k \in 1..Len(steps) : steps[k].outcome = "scored"

\* C21: after a scoring pass that scored a listen the era list is not empty
\* and partitions the months that have data, taken in the order of time: the
\* first era starts at the earliest month, the last era ends at the latest,
\* every era has start <= end, and every era starts at the month that follows
\* the end of the era before it; the report has the same list
C21_EraPartition ==
    ScoredSome =>
        LET eras == self.eras.list
        IN /\ self.eras.defined
           /\ eras # <<>>
           /\ \A j \in 1..Len(eras) :
                 /\ eras[j].start \in KeysOf(self.monthly_data)
                 /\ eras[j].end \in KeysOf(self.monthly_data)
                 /\ MonthPlace(eras[j].start) <= MonthPlace(eras[j].end)
           /\ MonthPlace(eras[1].start) = 1
           /\ MonthPlace(eras[Len(eras)].end) = Len(self.monthly_data)
           /\ \A j \in 1..(Len(eras) - 1) :
                 MonthPlace(eras[j + 1].start) = MonthPlace(eras[j].end) + 1
           /\ pc = "reported" => report.eras = eras

\* an era of two months, closed by the first listen of another artist
C21_Witness ==
    /\ ScoredSome
    /\ pc = "reported"
    /\ Len(report.eras) = 2
    /\ report.eras[1].start = Prefix(TsA, 7)
    /\ report.eras[1].end = Prefix(TsB, 7)
    /\ report.eras[2].start = Prefix(TsD, 7)
    /\ report.eras[2].end = Prefix(TsD, 7)

----------------------------------------------------------------------------
(* The rule of the era transitions *)

\* the months that have data, in the order of time
MonthAt(place) == CHOOSE m \in KeysOf(self.monthly_data) : MonthPlace(m) = place

\* the artist distribution of the month at a place
ArtistsAt(place) == self.monthly_data[IndexOf(self.monthly_data, MonthAt(place))].artists

\* the sum of the scores of an artist over the months from place lo to place hi
RECURSIVE ArtistSum(_, _, _)
ArtistSum(artist, lo, hi) ==
    IF lo > hi THEN Zero
    ELSE FAdd(ArtistSum(artist, lo, hi - 1), ScoreOf(ArtistsAt(hi), artist))

\* the sum of the artist distributions of these months, as a Counter
SumOfMonths(lo, hi) ==
    LET artists == SortedKeys(UNION {KeysOf(ArtistsAt(place)) : place \in lo..hi})
    IN [j \in 1..Len(artists) |-> [k |-> artists[j], v |-> ArtistSum(artists[j], lo, hi)]]

\* the month at place is compared with the sum of the months of the open era,
\* which started at the last month before it whose divergence exceeded the
\* threshold, or at the first month: its divergence exceeds 1.3 bits
RECURSIVE Shifted(_)
OpenSince(place) == Max({1} \cup {b \in 2..(place - 1) : Shifted(b)})

Shifted(place) ==
    Exceeds(KlDivergence(ArtistsAt(place), SumOfMonths(OpenSince(place), place - 1)), Threshold)

\* C22: a month after the first closes the open era exactly when its
\* divergence from the sum of the artist distributions of the months of the
\* open era exceeds 1.3 bits; the era closed ends at the month before it and
\* the next one starts with it. There is one era more than there are such
\* months, and the label of an era is an artist whose weight in the sum of the
\* months of the era is the largest
C22_EraTransitions ==
    ScoredSome =>
        LET eras == self.eras.list
            last == Len(self.monthly_data)
        IN /\ Len(eras) = 1 + Cardinality({place \in 2..last : Shifted(place)})
           /\ \A place \in 2..last :
                 Shifted(place) <=>
                     \E j \in 1..(Len(eras) - 1) :
                         /\ eras[j].end = MonthAt(place - 1)
                         /\ eras[j + 1].start = MonthAt(place)
           /\ \A j \in 1..Len(eras) :
                 LET sum == SumOfMonths(MonthPlace(eras[j].start), MonthPlace(eras[j].end))
                 IN /\ HasKey(sum, eras[j].top_artist)
                    /\ \A e \in 1..Len(sum) : FLeq(sum[e].v, ScoreOf(sum, eras[j].top_artist))

\* an era of one month, then an era of two months whose label is not the
\* first artist of its last month
C22_Witness ==
    /\ ScoredSome
    /\ Len(self.monthly_data) = 3
    /\ Len(self.eras.list) = 2
    /\ Shifted(2)
    /\ ~Shifted(3)
    /\ self.eras.list[2].top_artist # TopKey(ArtistsAt(3))

----------------------------------------------------------------------------
(* The probabilities of the divergence *)

\* the sum over the keys of the probabilities the divergence uses for counts
RECURSIVE SmoothedSum(_, _, _)
SmoothedSum(counts, keys, total) ==
    IF keys = {} THEN Zero
    ELSE LET key == CHOOSE x \in keys : TRUE
         IN FAdd(Smoothed(counts, key, total), SmoothedSum(counts, keys \ {key}, total))

\* the keys of the comparison of the month at place with the open era
KeysAt(place) ==
    KeysOf(ArtistsAt(place)) \cup KeysOf(SumOfMonths(OpenSince(place), place - 1))

\* the sums of the probabilities of the month and of the aggregate
MonthMass(place) ==
    SmoothedSum(ArtistsAt(place), KeysAt(place), ScoreSum(ArtistsAt(place)))

EraMass(place) ==
    SmoothedSum(SumOfMonths(OpenSince(place), place - 1), KeysAt(place),
                ScoreSum(SumOfMonths(OpenSince(place), place - 1)))

\* C23: in every comparison of a month with the open era, the probabilities
\* used for the month sum to exactly 1 and the probabilities used for the
\* aggregate sum to exactly 1
C23_SmoothedSumToOne ==
    ScoredSome =>
        \A place \in 2..Len(self.monthly_data) :
            /\ MonthMass(place) = Frac(1, 1)
            /\ EraMass(place) = Frac(1, 1)

\* C23 as the code has it: each count plus 0.01 is divided by the sum of the
\* counts without the 0.01, so the probabilities of a distribution sum to
\* 1 + 0.01 * (number of keys) / (sum of its counts)
C23_SmoothedSumAboveOne ==
    ScoredSome =>
        \A place \in 2..Len(self.monthly_data) :
            /\ MonthMass(place) =
                  FAdd(Frac(1, 1), FDiv(Frac(Cardinality(KeysAt(place)), 100),
                                        ScoreSum(ArtistsAt(place))))
            /\ EraMass(place) =
                  FAdd(Frac(1, 1), FDiv(Frac(Cardinality(KeysAt(place)), 100),
                                        ScoreSum(SumOfMonths(OpenSince(place), place - 1))))

----------------------------------------------------------------------------
(* The diversity of a month *)

\* the entropy stored for the month of entry j of monthly_data
EntropyOf(j) ==
    self.monthly_entropy[IndexOf(self.monthly_entropy, self.monthly_data[j].k)].v

\* C24: the diversity of a month is the Shannon entropy of the artist scores
\* of the month, so it is 0 for a month in which one artist has all the score
C24_EntropyOfArtists ==
    ScoredSome =>
        \A j \in 1..Len(self.monthly_data) :
            /\ HasKey(self.monthly_entropy, self.monthly_data[j].k)
            /\ EntropyOf(j) = CalculateEntropy(self.monthly_data[j].artists)
            /\ Len(self.monthly_data[j].artists) = 1 => EntropyOf(j) = 0

\* C24 as the code has it: the entropy of the song scores of the month, and
\* the report rounds it to two decimals
C24_EntropyOfSongs ==
    ScoredSome =>
        /\ \A j \in 1..Len(self.monthly_data) :
              /\ HasKey(self.monthly_entropy, self.monthly_data[j].k)
              /\ EntropyOf(j) = CalculateEntropy(self.monthly_data[j].songs)
        /\ pc = "reported" =>
              /\ report.entropy = self.monthly_entropy
              /\ \A m \in 1..Len(report.monthly) :
                    \E j \in 1..Len(self.monthly_data) :
                        /\ self.monthly_data[j].k = report.monthly[m].k
                        /\ report.monthly[m].entropy = Round2(Frac(EntropyOf(j), 1024))

----------------------------------------------------------------------------
(* The binge index *)

\* the largest score of an artist in one month
PeakOf(artist) ==
    CHOOSE x \in {ScoreOf(self.monthly_data[j].artists, artist) : j \in 1..Len(self.monthly_data)} :
        \A j \in 1..Len(self.monthly_data) : FLeq(ScoreOf(self.monthly_data[j].artists, artist), x)

\* the all-time score of an artist
TotalOf(artist) == ScoreOf(self.alltime_data.artists, artist)

\* C25: the binge index of every artist of the all-time ranking is the
\* largest monthly score of the artist divided by the all-time score of the
\* artist, rounded to two decimals; it is at most 1, and above 0 when the
\* all-time score is positive
C25_BingeIndex ==
    pc = "reported" =>
        \A j \in 1..Len(report.alltime.artists) :
            LET entry  == report.alltime.artists[j]
                artist == Lower(entry.name)
            IN /\ entry.binge_index <= 100
               /\ TotalOf(artist).n > 0 =>
                     /\ entry.binge_index = Round2(FDiv(PeakOf(artist), TotalOf(artist)))
                     /\ entry.binge_index > 0

\* C25 as the code has it: the divisor is the score of the ranking entry, the
\* all-time score rounded to two decimals, and the index is 0 when that is 0
C25_BingeIndexOfRoundedScore ==
    pc = "reported" =>
        \A j \in 1..Len(report.alltime.artists) :
            LET entry  == report.alltime.artists[j]
                artist == Lower(entry.name)
            IN /\ entry.score = Round2(TotalOf(artist))
               /\ entry.binge_index =
                     IF entry.score > 0
                     THEN Round2(FDiv(PeakOf(artist), Frac(entry.score, 100)))
                     ELSE 0

----------------------------------------------------------------------------
(* The order of equal scores *)

\* the buckets of the report with their keys (the empty key: all-time)
KeyedBuckets ==
    {[key |-> <<>>, data |-> self.alltime_data, ranking |-> report.alltime]}
    \cup {[key |-> report.monthly[j].k,
           data |-> self.monthly_data[IndexOf(self.monthly_data, report.monthly[j].k)],
           ranking |-> report.monthly[j].v] : j \in 1..Len(report.monthly)}
    \cup {[key |-> report.yearly[j].k,
           data |-> self.yearly_data[IndexOf(self.yearly_data, report.yearly[j].k)],
           ranking |-> report.yearly[j].v] : j \in 1..Len(report.yearly)}

\* the step at which a track, or an artist, first received score in a bucket
FirstOfTrack(track_id, key) ==
    Min({k \in 1..Len(steps) : InBucket(k, track_id, key)})

FirstOfArtist(artist, key) ==
    Min({k \in 1..Len(steps) :
            /\ steps[k].outcome = "scored"
            /\ self.all_records[k].track_id[2] = artist
            /\ Prefix(self.all_records[k].ts_str, Len(key)) = key})

\* the places of a track, or of an artist, in a ranking
PlacesOfTrack(ranking, track_id) ==
    {j \in 1..Len(ranking) : <<Lower(ranking[j].name), Lower(ranking[j].artist)>> = track_id}

PlacesOfArtist(ranking, artist) ==
    {j \in 1..Len(ranking) : Lower(ranking[j].name) = artist}

\* C26: of two songs, or two artists, with the same cumulative score in a
\* bucket, the one that received score in the bucket first stands first in the
\* ranking of the bucket, and is in the ranking whenever the other one is
C26_TieBreak ==
    pc = "reported" =>
        \A b \in KeyedBuckets :
            /\ \A x, y \in KeysOf(b.data.songs) :
                  /\ ScoreOf(b.data.songs, x) = ScoreOf(b.data.songs, y)
                  /\ FirstOfTrack(x, b.key) < FirstOfTrack(y, b.key)
                  => \A jy \in PlacesOfTrack(b.ranking.songs, y) :
                        \E jx \in PlacesOfTrack(b.ranking.songs, x) : jx < jy
            /\ \A x, y \in KeysOf(b.data.artists) :
                  /\ ScoreOf(b.data.artists, x) = ScoreOf(b.data.artists, y)
                  /\ FirstOfArtist(x, b.key) < FirstOfArtist(y, b.key)
                  => \A jy \in PlacesOfArtist(b.ranking.artists, y) :
                        \E jx \in PlacesOfArtist(b.ranking.artists, x) : jx < jy

\* two songs with the score 1 in January, the one that was scored first in
\* January scored second in the run; the all-time ranking is cut to one entry
C26_Witness ==
    /\ pc = "reported"
    /\ Len(report.alltime.songs) = 1
    /\ report.alltime.songs[1].name = Song
    /\ ScoreOf(self.alltime_data.songs, <<Lower(Other), Lower(Band)>>) = Frac(2, 1)
    /\ ScoreOf(self.alltime_data.songs, SongId) = Frac(2, 1)
    /\ \E m \in 1..Len(report.monthly) :
          /\ report.monthly[m].k = Prefix(TsB, 7)
          /\ Len(report.monthly[m].v.songs) = 1
          /\ report.monthly[m].v.songs[1].name = Other
          /\ Len(self.monthly_data[IndexOf(self.monthly_data, report.monthly[m].k)].songs) = 2

----------------------------------------------------------------------------
(* The display names *)

\* the canonical identity of raw event j of the log
IdOfLog(j) == CanonTrackId(TrackOf(log[j].record), ArtistOf(log[j].record))

\* the first accepted raw event of a canonical identity
FirstAccepted(track_id) ==
    Min({j \in 1..Len(log) : log[j].verdict = "accepted" /\ IdOfLog(j) = track_id})

\* every track has the names of the first accepted record of its identity:
\* the canonicalized track name and the artist name as they were written
NamedFromFirst ==
    \A e \in 1..Len(self.global_track_stats) :
        LET stats == self.global_track_stats[e]
        IN /\ \E j \in 1..Len(log) : log[j].verdict = "accepted" /\ IdOfLog(j) = stats.k
           /\ stats.track_name = CanonicalizeTrack(TrackOf(log[FirstAccepted(stats.k)].record))
           /\ stats.artist_name = ArtistOf(log[FirstAccepted(stats.k)].record)
           /\ stats.track_name # <<>>

\* no step changes the names of a track that has them
NamesKept ==
    \A e \in 1..Len(self.global_track_stats) :
        /\ e <= Len(self'.global_track_stats)
        /\ self'.global_track_stats[e].k = self.global_track_stats[e].k
        /\ self'.global_track_stats[e].track_name = self.global_track_stats[e].track_name
        /\ self'.global_track_stats[e].artist_name = self.global_track_stats[e].artist_name

\* C27: the display names of a CanonicalTrackID are those of the first
\* accepted record of the identity, and no later call of collect_records,
\* finalize_durations, process_data or get_report changes them
C27_WriteOnceNames ==
    /\ []NamedFromFirst
    /\ [][NamesKept]_vars

\* the report names the track as its first record did, after a record in
\* capitals and a remaster of the same identity were accepted
C27_Witness ==
    /\ pc = "reported"
    /\ Len(log) = 3
    /\ \A j \in 1..3 : log[j].verdict = "accepted" /\ IdOfLog(j) = SongId
    /\ TrackOf(log[1].record) = Song
    /\ TrackOf(log[2].record) = SongUpper
    /\ TrackOf(log[3].record) = SongRemaster
    /\ Len(report.alltime.songs) = 1
    /\ report.alltime.songs[1].name = Song
    /\ report.alltime.songs[1].artist = Art

----------------------------------------------------------------------------
(* The buckets *)

\* the sum of the scores of a key in the song or artist counters (field) of
\* the buckets of data whose key starts with prefix
RECURSIVE SumOfBuckets(_, _, _, _)
SumOfBuckets(data, field, key, prefix) ==
    IF data = <<>> THEN Zero
    ELSE FAdd(SumOfBuckets(Tail(data), field, key, prefix),
              IF Prefix(data[1].k, Len(prefix)) = prefix
              THEN ScoreOf(data[1][field], key) ELSE Zero)

\* the sum of the scores of the tracks of an artist in a song counter
RECURSIVE SumOfTracks(_, _)
SumOfTracks(songs, artist) ==
    IF songs = <<>> THEN Zero
    ELSE FAdd(SumOfTracks(Tail(songs), artist),
              IF songs[1].k[2] = artist THEN songs[1].v ELSE Zero)

\* the all-time score of every track and artist is the sum of its monthly
\* scores and the sum of its yearly scores
AllTimeIsSum(field) ==
    /\ \A j \in 1..Len(self.monthly_data) :
          KeysOf(self.monthly_data[j][field]) \subseteq KeysOf(self.alltime_data[field])
    /\ \A j \in 1..Len(self.yearly_data) :
          KeysOf(self.yearly_data[j][field]) \subseteq KeysOf(self.alltime_data[field])
    /\ \A key \in KeysOf(self.alltime_data[field]) :
          /\ ScoreOf(self.alltime_data[field], key)
                = SumOfBuckets(self.monthly_data, field, key, <<>>)
          /\ ScoreOf(self.alltime_data[field], key)
                = SumOfBuckets(self.yearly_data, field, key, <<>>)

\* the score of a year is the sum of the scores of the months of the year
YearIsSum(field) ==
    /\ \A j \in 1..Len(self.monthly_data) :
          HasKey(self.yearly_data, Prefix(self.monthly_data[j].k, 4))
    /\ \A j \in 1..Len(self.yearly_data) :
          \A key \in KeysOf(self.alltime_data[field]) :
              ScoreOf(self.yearly_data[j][field], key)
                 = SumOfBuckets(self.monthly_data, field, key, self.yearly_data[j].k)

\* the buckets: the global one, the months and the years
Buckets ==
    {self.alltime_data}
    \cup {[songs |-> self.monthly_data[j].songs, artists |-> self.monthly_data[j].artists] :
             j \in 1..Len(self.monthly_data)}
    \cup {[songs |-> self.yearly_data[j].songs, artists |-> self.yearly_data[j].artists] :
             j \in 1..Len(self.yearly_data)}

\* the score of an artist in a bucket is the sum of the scores of the
\* artist's tracks in the bucket
ArtistIsSum ==
    \A b \in Buckets :
        /\ \A e \in 1..Len(b.songs) : HasKey(b.artists, b.songs[e].k[2])
        /\ \A e \in 1..Len(b.artists) : b.artists[e].v = SumOfTracks(b.songs, b.artists[e].k)

BucketsConsistent ==
    /\ AllTimeIsSum("songs")
    /\ AllTimeIsSum("artists")
    /\ YearIsSum("songs")
    /\ YearIsSum("artists")
    /\ ArtistIsSum

\* the entries of the song or artist counters of the buckets of data
EntriesOf(data, field) ==
    UNION {{[bucket |-> data[j].k, key |-> data[j][field][e].k, v |-> data[j][field][e].v] :
               e \in 1..Len(data[j][field])} : j \in 1..Len(data)}

\* the score of a key in the bucket of data, 0 where there is none
OldScore(data, field, bucket, key) ==
    IF HasKey(data, bucket) THEN ScoreOf(data[IndexOf(data, bucket)][field], key) ELSE Zero

\* from before to after, fle was added to one entry of one bucket, and no
\* other entry is new, gone or changed
AddedToOne(before, after, field, fle) ==
    \E x \in EntriesOf(after, field) :
        /\ EntriesOf(after, field) \ EntriesOf(before, field) = {x}
        /\ x.v = FAdd(OldScore(before, field, x.bucket, x.key), fle)
        /\ \A y \in EntriesOf(before, field) \ EntriesOf(after, field) :
              y.bucket = x.bucket /\ y.key = x.key

\* the global bucket as the only bucket of a data
GlobalOf(analyzer) ==
    <<[k |-> <<>>, songs |-> analyzer.alltime_data.songs,
       artists |-> analyzer.alltime_data.artists]>>

\* a step that scores a listen adds its fle, which is positive, to one song
\* entry and one artist entry of one month, of one year and of the global
\* bucket; every other step leaves the buckets as they are
ScoresOnlyGrow ==
    IF Len(steps') = Len(steps) + 1 /\ steps'[Len(steps')].outcome = "scored"
    THEN LET fle == steps'[Len(steps')].fle
         IN /\ fle.n > 0
            /\ \A field \in {"songs", "artists"} :
                  /\ AddedToOne(self.monthly_data, self'.monthly_data, field, fle)
                  /\ AddedToOne(self.yearly_data, self'.yearly_data, field, fle)
                  /\ AddedToOne(GlobalOf(self), GlobalOf(self'), field, fle)
    ELSE Scores(self') = Scores(self)

\* C28: at every point of the scoring pass, the all-time score of every track
\* and artist is the sum of its monthly scores and the sum of its yearly
\* scores, the score of a year is the sum of the scores of its months, the
\* score of an artist in a bucket is the sum of the scores of the artist's
\* tracks in the bucket, and no bucket value ever decreases: a scored listen
\* adds its fle to exactly one month, one year and the global bucket
C28_BucketConsistency ==
    /\ []BucketsConsistent
    /\ [][ScoresOnlyGrow]_vars

\* a scoring pass under way over two years: the artist with two tracks has a
\* listen in each year and the second track is still to be scored
C28_Witness ==
    /\ pc = "scoring"
    /\ i = Len(self.all_records)
    /\ Len(self.yearly_data) = 2
    /\ Len(self.monthly_data) = 3
    /\ ScoreOf(self.alltime_data.artists, ArtKey) = Frac(3, 1)
    /\ self.all_records[i].track_id = <<Lower(Other), ArtKey>>

----------------------------------------------------------------------------
(* The repaired listens *)

\* C29: a record whose duration was replaced by the reference is not dropped
\* and scores exactly 1, so stats.repaired never exceeds stats.processed
C29_RepairedIsScored ==
    /\ \A k \in 1..Len(steps) :
          steps[k].repaired =>
              /\ steps[k].outcome = "scored"
              /\ steps[k].effective_ms = steps[k].ref_ms
              /\ steps[k].effective_ms >= 5000
              /\ steps[k].fle = Frac(1, 1)
    /\ self.stats.repaired <= self.stats.processed
    /\ self.stats.processed = Cardinality({k \in 1..Len(steps) : steps[k].outcome = "scored"})

\* a report of 3000 ms, which would be dropped as it is, was repaired and
\* scored
C29_Witness ==
    /\ finalized.called
    /\ pc = "reported"
    /\ self.stats.repaired = 1
    /\ \E k \in 1..Len(steps) :
          /\ steps[k].repaired
          /\ self.all_records[k].ms_played.n < 5000
          /\ steps[k].outcome = "scored"
    /\ report.stats.processed = HistoryLen + 2

----------------------------------------------------------------------------
(* The order of the input *)

\* the raw events of the log in the order of a permutation of their places
Reordered(p) == [j \in 1..Len(log) |-> log[p[j]].record]

\* load_and_analyze over a list of raw events: the analyzer it leaves
RunOver(events) ==
    ProcessData(FinalizeDurations(CollectAll(NewAnalyzer, events, <<>>).self)).self

\* a Counter, and the buckets of a data, as mappings
AsMapping(counter) == {counter[j] : j \in 1..Len(counter)}

BucketsAsMappings(data) ==
    {[k |-> data[j].k, songs |-> AsMapping(data[j].songs),
      artists |-> AsMapping(data[j].artists)] : j \in 1..Len(data)}

\* the counters, the cumulative scores of every bucket and the eras of a run
ResultsOf(analyzer) ==
    [stats   |-> analyzer.stats,
     monthly |-> BucketsAsMappings(analyzer.monthly_data),
     yearly  |-> BucketsAsMappings(analyzer.yearly_data),
     alltime |-> [songs |-> AsMapping(analyzer.alltime_data.songs),
                  artists |-> AsMapping(analyzer.alltime_data.artists)],
     eras    |-> analyzer.eras]

\* the accepted records have pairwise distinct timestamps
DistinctTimestamps ==
    \A a, b \in 1..Len(self.all_records) :
        a # b => self.all_records[a].ts # self.all_records[b].ts

\* the run was one of load_and_analyze: everything was collected, then the
\* references were computed, then the corpus was scored
LoadRun ==
    /\ pc \in {"processed", "reported"}
    /\ finalized.called
    /\ ~finalized.stale

\* C30: when the accepted records have pairwise distinct timestamps, the run
\* over every other order of the same raw events leaves the same counters,
\* the same cumulative scores in every month, year and the global bucket and
\* the same eras, and the report lists the months in ascending order
C30_OrderIndependence ==
    LoadRun /\ DistinctTimestamps =>
        /\ \A p \in Permutations(1..Len(log)) :
              ResultsOf(RunOver(Reordered(p))) = ResultsOf(self)
        /\ pc = "reported" =>
              /\ Len(report.monthly) = Len(self.monthly_data)
              /\ \A m \in 1..(Len(report.monthly) - 1) :
                    MonthNumber(report.monthly[m].k) < MonthNumber(report.monthly[m + 1].k)

\* February was collected before January and the report has three months
C30_Witness ==
    /\ LoadRun
    /\ DistinctTimestamps
    /\ pc = "reported"
    /\ Len(log) = 3
    /\ log[2].record.ts = Str(TsD)
    /\ log[3].record.ts = Str(TsB)
    /\ Len(report.monthly) = 3
    /\ Len(report.eras) = 3

=============================================================================
